---- MODULE Spec2Model ----
(***************************************************************************)
(* The atomic term dictionary of sse-plugin-translator                     *)
(* (src-tauri/src/atomic_db.rs) and the Tauri commands that reach it       *)
(* (src-tauri/src/commands/atomic.rs).                                     *)
(*                                                                         *)
(* A string is the sequence of its UTF-8 bytes.  An ASCII byte is written  *)
(* as the one-character string of its letter, a byte of a multi-byte       *)
(* character as its two hexadecimal digits.  Offsets are Rust offsets:     *)
(* 0-based, a range start..end excludes end.                               *)
(***************************************************************************)
EXTENDS Integers, Sequences, FiniteSets, TLC

VARIABLES
    conn,            \* the atomic_translations table: original_text -> row
    sqlite_sequence, \* the largest id AUTOINCREMENT has handed out
    memory_index,    \* HashMap<String, AtomTranslation>
    matcher,         \* Option<AhoCorasick>: None, or the patterns it was built from
    workers,         \* spawned usage-count threads that have not run yet: key -> number
    clock,           \* SystemTime::now(), in seconds
    steps,           \* commands issued and seconds passed since the start
    state_poisoned,  \* the managed Mutex<AtomicDB> is poisoned (a command panicked)
    last,            \* the last command: its name, arguments and outcome
    thread,          \* the calls in progress on the engine: thread -> call, position
    owner            \* the thread that holds each Mutex of AtomicDB, 0 when free

vars == <<conn, sqlite_sequence, memory_index, matcher, workers, clock, steps,
          state_poisoned, last, thread, owner>>

----------------------------------------------------------------------------
(* Bounds of the model.                                                    *)

MaxSteps == 3       \* commands and clock ticks of one run of the application
MaxTextLen == 4     \* characters of a text handed to replace_with_atoms alone
MaxCalls == 2       \* calls made on one shared AtomicDB, each on a thread of its own

----------------------------------------------------------------------------
(* Strings.                                                                *)

\* Option<T>: None, or Some(x).
None == <<>>
Some(x) == <<x>>
Unwrap(o) == o[1]

\* U+212A KELVIN SIGN: three bytes, and char::to_lowercase gives "k", one byte.
KelvinSign == <<"E2", "84", "AA">>

AsciiUpper == {"A", "B", "S", "E", "K"}

\* u8::to_ascii_lowercase on the bytes the model uses.
AsciiLowerByte(b) ==
    CASE b = "A" -> "a"
      [] b = "B" -> "b"
      [] b = "S" -> "s"
      [] b = "E" -> "e"
      [] b = "K" -> "k"
      [] OTHER -> b

\* A UTF-8 continuation byte (10xxxxxx).
IsContinuation(b) == b \in {"84", "AA"}

\* The byte length of the character a lead byte starts.
Utf8Len(b) == IF b = "E2" THEN 3 ELSE 1

\* str::is_char_boundary
is_char_boundary(s, i) ==
    \/ i = 0
    \/ i = Len(s)
    \/ i > 0 /\ i < Len(s) /\ ~IsContinuation(s[i + 1])

\* char::to_lowercase, on the bytes of one character.
CharToLowercase(c) ==
    IF c = KelvinSign THEN <<"k">>
    ELSE IF Len(c) = 1 THEN <<AsciiLowerByte(c[1])>>
    ELSE c

\* str::to_lowercase: every character replaced by its lower-case form.
RECURSIVE to_lowercase(_)
to_lowercase(s) ==
    IF s = <<>> THEN <<>>
    ELSE LET n == Utf8Len(s[1])
         IN  CharToLowercase(SubSeq(s, 1, n)) \o to_lowercase(SubSeq(s, n + 1, Len(s)))

\* s[start..end]
Slice(s, start, end) == SubSeq(s, start + 1, end)

\* Whether s[start..end] is a legal slice (it panics otherwise).
SliceOk(s, start, end) ==
    /\ start <= end
    /\ end <= Len(s)
    /\ is_char_boundary(s, start)
    /\ is_char_boundary(s, end)

\* str::ends_with
ends_with(s, suffix) ==
    /\ Len(s) >= Len(suffix)
    /\ SubSeq(s, Len(s) - Len(suffix) + 1, Len(s)) = suffix

\* String::replace_range(start..end, replacement)
replace_range(s, start, end, replacement) ==
    SubSeq(s, 1, start) \o replacement \o SubSeq(s, end + 1, Len(s))

\* format!("{}({})", original_case, translated)
FormatReplacement(original_case, translated) ==
    original_case \o <<"(">> \o translated \o <<")">>

----------------------------------------------------------------------------
(* AtomSource.                                                             *)

AtomSource == {"Base", "AI", "Manual"}

as_str(source) ==
    CASE source = "Base" -> "base"
      [] source = "AI" -> "ai"
      [] source = "Manual" -> "manual"

from_str(s) ==
    CASE s = "base" -> "Base"
      [] s = "ai" -> "AI"
      [] s = "manual" -> "Manual"
      [] OTHER -> "Manual"

----------------------------------------------------------------------------
(* The Aho-Corasick automaton: ascii_case_insensitive, LeftmostLongest.    *)

\* MatchesAt for whole words only: the occurrence must begin and end the
\* haystack, every byte of which is a letter.
MatchesAt_WholeWord(p, h, i) ==
    /\ i = 0
    /\ Len(p) = Len(h)
    /\ \A j \in 1..Len(p) : AsciiLowerByte(p[j]) = AsciiLowerByte(h[i + j])

\* Whether pattern p occurs in haystack h at offset i, ASCII case ignored.
MatchesAt(p, h, i) ==
    /\ i + Len(p) <= Len(h)
    /\ \A j \in 1..Len(p) : AsciiLowerByte(p[j]) = AsciiLowerByte(h[i + j])

\* The patterns that occur at offset i.
PatternsAt(patterns, h, i) == {p \in patterns : MatchesAt(p, h, i)}

\* LongestAt with the shortest pattern taken, as an automaton built without
\* MatchKind::LeftmostLongest reports it.
LongestAt_Shortest(patterns, h, i) ==
    CHOOSE n \in {Len(p) : p \in PatternsAt(patterns, h, i)} :
        \A p \in PatternsAt(patterns, h, i) : Len(p) >= n

\* LeftmostLongest: of the patterns that occur at one offset, the longest.
LongestAt(patterns, h, i) ==
    CHOOSE n \in {Len(p) : p \in PatternsAt(patterns, h, i)} :
        \A p \in PatternsAt(patterns, h, i) : Len(p) <= n

\* The first match at or after offset at: leftmost start, then longest.
RECURSIVE FindAt(_, _, _)
FindAt(patterns, h, at) ==
    IF at > Len(h) THEN None
    ELSE IF PatternsAt(patterns, h, at) # {}
         THEN Some([start |-> at, end |-> at + LongestAt(patterns, h, at)])
         ELSE FindAt(patterns, h, at + 1)

\* FindIterFrom with the search restarted one byte after the start of a
\* match, not at its end: matches that overlap are reported.
RECURSIVE FindIterFrom_Restarting(_, _, _, _)
FindIterFrom_Restarting(patterns, h, at, last_match_end) ==
    LET found == FindAt(patterns, h, at)
        m == Unwrap(found)
    IN  IF found = None THEN <<>>
        ELSE <<m>> \o FindIterFrom_Restarting(patterns, h, m.start + 1, m.end)

\* AhoCorasick::find_iter: the successive non-overlapping matches.  An empty
\* match that ends where the previous match ended is skipped, and the search
\* restarts one byte further.
RECURSIVE FindIterFrom(_, _, _, _)
FindIterFrom(patterns, h, at, last_match_end) ==
    LET found == FindAt(patterns, h, at)
        m == Unwrap(found)
    IN  IF found = None THEN <<>>
        ELSE IF m.start = m.end /\ m.end = last_match_end
             THEN FindIterFrom(patterns, h, at + 1, last_match_end)
             ELSE <<m>> \o FindIterFrom(patterns, h, m.end, m.end)

\* The occurrences of every pattern from offset at on, by start offset: what
\* find_overlapping_iter would report.
RECURSIVE OverlappingFrom(_, _, _)
OverlappingFrom(patterns, h, at) ==
    LET RECURSIVE Here(_)
        Here(ps) ==
            IF ps = {} THEN <<>>
            ELSE LET p == CHOOSE x \in ps : \A y \in ps : Len(x) <= Len(y)
                 IN  <<[start |-> at, end |-> at + Len(p)]>> \o Here(ps \ {p})
    IN  IF at > Len(h) THEN <<>>
        ELSE Here(PatternsAt(patterns, h, at)) \o OverlappingFrom(patterns, h, at + 1)

\* find_iter with the overlapping matches reported too.
find_iter_Overlapping(patterns, h) == OverlappingFrom(patterns, h, 0)

find_iter(patterns, h) == FindIterFrom(patterns, h, 0, -1)

----------------------------------------------------------------------------
(* The derived layers: the Index and the Automaton.                        *)

\* HashMap::get
Get(memory, key) == IF key \in DOMAIN memory THEN Some(memory[key]) ELSE None

\* The row of the table as the AtomTranslation the Index holds.
RowToAtom(row) ==
    [id |-> row.id,
     original |-> row.original_text,
     translated |-> row.translated_text,
     usage_count |-> row.usage_count,
     source |-> from_str(row.source_type),
     created_at |-> row.created_at,
     updated_at |-> row.updated_at]

\* load_all_to_memory: the map is cleared and every row of the table inserted.
load_all_to_memory(table) == [k \in DOMAIN table |-> RowToAtom(table[k])]

\* PluralPatterns with the two ends_with tests left out.
PluralPatterns_Unconditional(pattern) ==
    {pattern \o <<"s">>, pattern \o <<"e", "s">>}

\* The plural forms rebuild_matcher generates for one pattern.
PluralPatterns(pattern) ==
    (IF ~ends_with(pattern, <<"s">>) THEN {pattern \o <<"s">>} ELSE {})
        \cup (IF ~ends_with(pattern, <<"e", "s">>) THEN {pattern \o <<"e", "s">>} ELSE {})

\* rebuild_matcher without the is_empty test: an automaton is built whatever
\* the Index holds.
rebuild_matcher_NoSentinel(memory) ==
    Some([patterns |->
             DOMAIN memory \cup UNION {PluralPatterns(k) : k \in DOMAIN memory}])

\* rebuild_matcher: None for an empty Index, else the automaton over the keys
\* and their plural forms.  The automaton is held as its pattern set: the
\* order of the pattern list only decides between equal patterns.
rebuild_matcher(memory) ==
    IF DOMAIN memory = {} THEN None
    ELSE Some([patterns |->
                  DOMAIN memory \cup UNION {PluralPatterns(k) : k \in DOMAIN memory}])

\* find_atom_by_normalization with the length test of the "s" rule off by one.
find_atom_by_normalization_Strict(word, memory) ==
    LET n == Len(word)
        stem1 == SubSeq(word, 1, n - 1)
        stem2 == SubSeq(word, 1, n - 2)
        singular == SubSeq(word, 1, n - 3) \o <<"y">>
    IN  IF ends_with(word, <<"s">>) /\ n > 3 /\ stem1 \in DOMAIN memory
        THEN Some(memory[stem1])
        ELSE IF ends_with(word, <<"e", "s">>) /\ n > 3 /\ stem2 \in DOMAIN memory
        THEN Some(memory[stem2])
        ELSE IF ends_with(word, <<"i", "e", "s">>) /\ n > 4 /\ singular \in DOMAIN memory
        THEN Some(memory[singular])
        ELSE None

\* find_atom_by_normalization with the "ies" rule tried first.
find_atom_by_normalization_IesFirst(word, memory) ==
    LET n == Len(word)
        stem1 == SubSeq(word, 1, n - 1)
        stem2 == SubSeq(word, 1, n - 2)
        singular == SubSeq(word, 1, n - 3) \o <<"y">>
    IN  IF ends_with(word, <<"i", "e", "s">>) /\ n > 4 /\ singular \in DOMAIN memory
        THEN Some(memory[singular])
        ELSE IF ends_with(word, <<"s">>) /\ n > 2 /\ stem1 \in DOMAIN memory
        THEN Some(memory[stem1])
        ELSE IF ends_with(word, <<"e", "s">>) /\ n > 3 /\ stem2 \in DOMAIN memory
        THEN Some(memory[stem2])
        ELSE None

\* find_atom_by_normalization: strip "s", then "es", then turn "ies" into "y".
find_atom_by_normalization(word, memory) ==
    LET n == Len(word)
        stem1 == SubSeq(word, 1, n - 1)
        stem2 == SubSeq(word, 1, n - 2)
        singular == SubSeq(word, 1, n - 3) \o <<"y">>
    IN  IF ends_with(word, <<"s">>) /\ n > 2 /\ stem1 \in DOMAIN memory
        THEN Some(memory[stem1])
        ELSE IF ends_with(word, <<"e", "s">>) /\ n > 3 /\ stem2 \in DOMAIN memory
        THEN Some(memory[stem2])
        ELSE IF ends_with(word, <<"i", "e", "s">>) /\ n > 4 /\ singular \in DOMAIN memory
        THEN Some(memory[singular])
        ELSE None

----------------------------------------------------------------------------
(* replace_with_atoms.                                                     *)

\* Vec::insert of m behind every element whose start is not smaller: one step
\* of the stable sort by Reverse(start).
RECURSIVE InsertByReverseStart(_, _)
InsertByReverseStart(sorted, m) ==
    IF sorted = <<>> THEN <<m>>
    ELSE IF sorted[1].start >= m.start
         THEN <<sorted[1]>> \o InsertByReverseStart(Tail(sorted), m)
         ELSE <<m>> \o sorted

\* matches.sort_by_key(|m| Reverse(m.start()))
RECURSIVE SortFrom(_, _)
SortFrom(sorted, rest) ==
    IF rest = <<>> THEN sorted
    ELSE SortFrom(InsertByReverseStart(sorted, rest[1]), Tail(rest))

\* sort_by_key with the order of find_iter kept: ascending start.
sort_by_key_Ascending(matches) == matches

sort_by_key(matches) == SortFrom(<<>>, matches)

\* The overlap test against the ranges already rewritten.
Overlaps(processed_ranges, start, end) ==
    \E i \in 1..Len(processed_ranges) :
        ~(end <= processed_ranges[i][1] \/ start >= processed_ranges[i][2])

\* LookupAtom that tries the singular forms before the matched text itself.
LookupAtom_StemFirst(matched_text_lower, memory) ==
    IF find_atom_by_normalization(matched_text_lower, memory) # None
    THEN find_atom_by_normalization(matched_text_lower, memory)
    ELSE Get(memory, matched_text_lower)

\* LookupAtom that passes over the atoms not tagged Base.
LookupAtom_BaseOnly(matched_text_lower, memory) ==
    LET atom_opt == IF Get(memory, matched_text_lower) # None
                    THEN Get(memory, matched_text_lower)
                    ELSE find_atom_by_normalization(matched_text_lower, memory)
    IN  IF atom_opt # None /\ Unwrap(atom_opt).source # "Base" THEN None
        ELSE atom_opt

\* The lookup of a matched text: the key itself, else its singular.
LookupAtom(matched_text_lower, memory) ==
    IF Get(memory, matched_text_lower) # None
    THEN Get(memory, matched_text_lower)
    ELSE find_atom_by_normalization(matched_text_lower, memory)

\* ReplaceStep with the span taken from the lower-cased copy.
ReplaceStep_LowerCase(acc, mat, memory, text, text_lower) ==
    LET start == mat.start
        end == mat.end
        atom_opt == LookupAtom(Slice(text_lower, start, end), memory)
        atom == Unwrap(atom_opt)
    IN  IF acc.panicked \/ Overlaps(acc.processed_ranges, start, end) \/ atom_opt = None
        THEN acc
        ELSE IF ~SliceOk(text, start, end) \/ ~SliceOk(acc.result, start, end)
        THEN [acc EXCEPT !.panicked = TRUE]
        ELSE [result |-> replace_range(acc.result, start, end,
                             FormatReplacement(Slice(text_lower, start, end),
                                               atom.translated)),
              processed_ranges |-> Append(acc.processed_ranges, <<start, end>>),
              spawned |-> Append(acc.spawned, atom.original),
              panicked |-> FALSE]

\* ReplaceStep that takes a match without an atom for handled: its range is
\* recorded and a usage-count thread spawned for the matched text.
ReplaceStep_CountsDropped(acc, mat, memory, text, text_lower) ==
    LET start == mat.start
        end == mat.end
        atom_opt == LookupAtom(Slice(text_lower, start, end), memory)
        atom == Unwrap(atom_opt)
    IN  IF acc.panicked \/ Overlaps(acc.processed_ranges, start, end)
        THEN acc
        ELSE IF atom_opt = None
        THEN [acc EXCEPT !.processed_ranges = Append(@, <<start, end>>),
                         !.spawned = Append(@, Slice(text_lower, start, end))]
        ELSE IF ~SliceOk(text, start, end) \/ ~SliceOk(acc.result, start, end)
        THEN [acc EXCEPT !.panicked = TRUE]
        ELSE [result |-> replace_range(acc.result, start, end,
                             FormatReplacement(Slice(text, start, end), atom.translated)),
              processed_ranges |-> Append(acc.processed_ranges, <<start, end>>),
              spawned |-> Append(acc.spawned, atom.original),
              panicked |-> FALSE]

\* One pass of the loop body over the match mat, from the loop state acc:
\* result, processed_ranges, the usage-count threads spawned, and whether the
\* call has panicked (a slice of text off a character boundary or past its end).
ReplaceStep(acc, mat, memory, text, text_lower) ==
    LET start == mat.start
        end == mat.end
        atom_opt == LookupAtom(Slice(text_lower, start, end), memory)
        atom == Unwrap(atom_opt)
    IN  IF acc.panicked \/ Overlaps(acc.processed_ranges, start, end) \/ atom_opt = None
        THEN acc
        ELSE IF ~SliceOk(text, start, end) \/ ~SliceOk(acc.result, start, end)
        THEN [acc EXCEPT !.panicked = TRUE]
        ELSE [result |-> replace_range(acc.result, start, end,
                             FormatReplacement(Slice(text, start, end), atom.translated)),
              processed_ranges |-> Append(acc.processed_ranges, <<start, end>>),
              spawned |-> Append(acc.spawned, atom.original),
              panicked |-> FALSE]

RECURSIVE ReplaceLoop(_, _, _, _, _)
ReplaceLoop(acc, matches, memory, text, text_lower) ==
    IF matches = <<>> THEN acc
    ELSE ReplaceLoop(ReplaceStep(acc, matches[1], memory, text, text_lower),
                     Tail(matches), memory, text, text_lower)

\* replace_with_atoms that scans and rewrites its own result once more.
replace_with_atoms_Rescanning(ac, memory, text) ==
    LET start0 == [result |-> text, processed_ranges |-> <<>>, spawned |-> <<>>,
                   panicked |-> FALSE]
        first == IF ac = None THEN start0
                 ELSE ReplaceLoop(start0,
                          sort_by_key(find_iter(Unwrap(ac).patterns, to_lowercase(text))),
                          memory, text, to_lowercase(text))
        again == [result |-> first.result, processed_ranges |-> <<>>,
                  spawned |-> first.spawned, panicked |-> first.panicked]
    IN  IF ac = None THEN start0
        ELSE ReplaceLoop(again,
                 sort_by_key(find_iter(Unwrap(ac).patterns, to_lowercase(first.result))),
                 memory, first.result, to_lowercase(first.result))

\* replace_with_atoms(text) on the automaton ac and the Index memory.
replace_with_atoms(ac, memory, text) ==
    LET text_lower == to_lowercase(text)
        start0 == [result |-> text, processed_ranges |-> <<>>, spawned |-> <<>>,
                   panicked |-> FALSE]
    IN  IF ac = None THEN start0
        ELSE ReplaceLoop(start0, sort_by_key(find_iter(Unwrap(ac).patterns, text_lower)),
                         memory, text, text_lower)

----------------------------------------------------------------------------
(* The Store: the atomic_translations table behind conn.                   *)

\* SqlUpsert as INSERT OR REPLACE would do it: on conflict the row is replaced
\* by a new one.
SqlUpsert_Replace(table, seq, original_lower, translated, source_type, now) ==
    [k \in DOMAIN table \cup {original_lower} |->
        IF k = original_lower
        THEN [id |-> seq + 1,
              original_text |-> original_lower,
              translated_text |-> translated,
              usage_count |-> 0,
              source_type |-> source_type,
              created_at |-> now,
              updated_at |-> now]
        ELSE table[k]]

\* INSERT ... ON CONFLICT(original_text) DO UPDATE SET translated_text,
\* source_type, updated_at.  A new row takes the next AUTOINCREMENT id, the
\* default usage_count 0 and created_at = updated_at = now.
SqlUpsert(table, seq, original_lower, translated, source_type, now) ==
    IF original_lower \in DOMAIN table
    THEN [table EXCEPT ![original_lower].translated_text = translated,
                       ![original_lower].source_type = source_type,
                       ![original_lower].updated_at = now]
    ELSE [k \in DOMAIN table \cup {original_lower} |->
            IF k = original_lower
            THEN [id |-> seq + 1,
                  original_text |-> original_lower,
                  translated_text |-> translated,
                  usage_count |-> 0,
                  source_type |-> source_type,
                  created_at |-> now,
                  updated_at |-> now]
            ELSE table[k]]

\* The AUTOINCREMENT counter after the upsert.
SqlUpsertSeq(table, seq, original_lower) ==
    IF original_lower \in DOMAIN table THEN seq ELSE seq + 1

\* DELETE FROM atomic_translations WHERE original_text = ?1
SqlDelete(table, original_lower) ==
    [k \in DOMAIN table \ {original_lower} |-> table[k]]

\* The rows UPDATE ... WHERE id = ?4 affects.
RowsWithId(table, id) == {k \in DOMAIN table : table[k].id = id}

\* UPDATE ... SET translated_text, source_type, updated_at WHERE id = ?4
\* The UPDATE by id with usage_count set back to 0.
SqlUpdateById_ResetUsage(table, id, translated, source_type, now) ==
    [k \in DOMAIN table |->
        IF table[k].id = id
        THEN [table[k] EXCEPT !.translated_text = translated,
                              !.source_type = source_type,
                              !.usage_count = 0,
                              !.updated_at = now]
        ELSE table[k]]

\* The UPDATE without its WHERE clause: every row is given the new values.
SqlUpdateById_AllRows(table, id, translated, source_type, now) ==
    [k \in DOMAIN table |->
        [table[k] EXCEPT !.translated_text = translated,
                         !.source_type = source_type,
                         !.updated_at = now]]

SqlUpdateById(table, id, translated, source_type, now) ==
    [k \in DOMAIN table |->
        IF table[k].id = id
        THEN [table[k] EXCEPT !.translated_text = translated,
                              !.source_type = source_type,
                              !.updated_at = now]
        ELSE table[k]]

\* The increment as an upsert: a row that is missing is created with count 1.
SqlIncrementUsage_Creating(table, original) ==
    [k \in DOMAIN table \cup {original} |->
        IF k \notin DOMAIN table
        THEN [id |-> 0, original_text |-> k, translated_text |-> <<>>,
              usage_count |-> 1, source_type |-> "manual",
              created_at |-> 0, updated_at |-> 0]
        ELSE IF k = original
        THEN [table[k] EXCEPT !.usage_count = table[k].usage_count + 1]
        ELSE table[k]]

\* UPDATE ... SET usage_count = usage_count + 1 WHERE original_text = ?1
SqlIncrementUsage(table, original) ==
    [k \in DOMAIN table |->
        IF k = original
        THEN [table[k] EXCEPT !.usage_count = table[k].usage_count + 1]
        ELSE table[k]]

\* now_timestamp
now_timestamp == clock

----------------------------------------------------------------------------
(* The detached usage-count threads, as a bag of the keys they will bump.  *)

EmptyBag == <<>>

BagCount(bag, k) == IF k \in DOMAIN bag THEN bag[k] ELSE 0

BagAdd(bag, k) ==
    [x \in DOMAIN bag \cup {k} |-> BagCount(bag, x) + (IF x = k THEN 1 ELSE 0)]

BagRemove(bag, k) ==
    [x \in {y \in DOMAIN bag : y # k \/ bag[y] > 1} |->
        bag[x] - (IF x = k THEN 1 ELSE 0)]

RECURSIVE BagAddAll(_, _)
BagAddAll(bag, keys) ==
    IF keys = <<>> THEN bag ELSE BagAddAll(BagAdd(bag, keys[1]), Tail(keys))

RECURSIVE BagSize(_)
BagSize(bag) ==
    IF DOMAIN bag = {} THEN 0
    ELSE LET k == CHOOSE x \in DOMAIN bag : TRUE
         IN  bag[k] + BagSize([x \in DOMAIN bag \ {k} |-> bag[x]])

\* increment_usage_async that spawns no second thread for a key while one is
\* pending.
RECURSIVE increment_usage_async_Coalescing(_, _)
increment_usage_async_Coalescing(bag, spawned) ==
    IF spawned = <<>> THEN bag
    ELSE increment_usage_async_Coalescing(
             IF spawned[1] \in DOMAIN bag THEN bag ELSE BagAdd(bag, spawned[1]),
             Tail(spawned))

\* increment_usage_async: one thread spawned per key of spawned.
increment_usage_async(bag, spawned) == BagAddAll(bag, spawned)

----------------------------------------------------------------------------
(* AtomicDB: the methods, as the state they leave behind.                  *)

\* upsert_atom: Store write, reload of the Index, rebuild of the Automaton.
upsert_atom(original, translated, source) ==
    LET original_lower == to_lowercase(original)
        now == now_timestamp
        table == SqlUpsert(conn, sqlite_sequence, original_lower, translated,
                           as_str(source), now)
    IN  /\ conn' = table
        /\ sqlite_sequence' = SqlUpsertSeq(conn, sqlite_sequence, original_lower)
        /\ memory_index' = load_all_to_memory(table)
        /\ matcher' = rebuild_matcher(load_all_to_memory(table))

\* delete_atom with the reload and the rebuild left out.
delete_atom_StoreOnly(original) ==
    /\ conn' = SqlDelete(conn, to_lowercase(original))
    /\ UNCHANGED <<sqlite_sequence, memory_index, matcher>>

\* delete_atom
delete_atom(original) ==
    LET original_lower == to_lowercase(original)
        table == SqlDelete(conn, original_lower)
    IN  /\ conn' = table
        /\ memory_index' = load_all_to_memory(table)
        /\ matcher' = rebuild_matcher(load_all_to_memory(table))
        /\ UNCHANGED sqlite_sequence

\* update_atom with the reload of the Index left out.
update_atom_NoReload(id, translated, source) ==
    /\ conn' = SqlUpdateById(conn, id, translated, as_str(source), now_timestamp)
    /\ UNCHANGED <<sqlite_sequence, memory_index, matcher>>

\* update_atom with the reload and the rebuild done before the test of affected.
update_atom_AlwaysReload(id, translated, source) ==
    LET table == SqlUpdateById(conn, id, translated, as_str(source), now_timestamp)
    IN  /\ conn' = table
        /\ memory_index' = load_all_to_memory(table)
        /\ matcher' = rebuild_matcher(load_all_to_memory(table))
        /\ UNCHANGED sqlite_sequence

\* update_atom: Err(QueryReturnedNoRows) before any reload when no row has the id.
update_atom(id, translated, source) ==
    LET now == now_timestamp
        affected == Cardinality(RowsWithId(conn, id))
        table == SqlUpdateById(conn, id, translated, as_str(source), now)
    IN  IF affected = 0
        THEN UNCHANGED <<conn, sqlite_sequence, memory_index, matcher>>
        ELSE /\ conn' = table
             /\ memory_index' = load_all_to_memory(table)
             /\ matcher' = rebuild_matcher(load_all_to_memory(table))
             /\ UNCHANGED sqlite_sequence

\* atoms.sort_by(|a, b| b.usage_count.cmp(&a.usage_count)): stable, by
\* descending usage_count.
RECURSIVE InsertByUsage(_, _)
InsertByUsage(sorted, atom) ==
    IF sorted = <<>> THEN <<atom>>
    ELSE IF sorted[1].usage_count >= atom.usage_count
         THEN <<sorted[1]>> \o InsertByUsage(Tail(sorted), atom)
         ELSE <<atom>> \o sorted

RECURSIVE SortByUsageFrom(_, _)
SortByUsageFrom(sorted, rest) ==
    IF rest = <<>> THEN sorted
    ELSE SortByUsageFrom(InsertByUsage(sorted, rest[1]), Tail(rest))

\* The orders in which memory.values() may iterate the map.
IterationOrders(memory) ==
    {order \in [1..Cardinality(DOMAIN memory) -> DOMAIN memory] :
        \A i, j \in DOMAIN order : i # j => order[i] # order[j]}

\* get_all_atoms without the sort: the values as the HashMap iterates them.
get_all_atoms_Unsorted(memory, order) ==
    [i \in DOMAIN order |-> memory[order[i]]]

\* get_all_atoms, for one iteration order of the HashMap.
get_all_atoms(memory, order) ==
    SortByUsageFrom(<<>>, [i \in DOMAIN order |-> memory[order[i]]])

----------------------------------------------------------------------------
(* The Tauri commands.  Each takes the lock of the managed Mutex<AtomicDB>  *)
(* first and returns Err when it is poisoned.                              *)

NoCall ==
    [op |-> "none", original |-> <<>>, translated |-> <<>>, source |-> "",
     id |-> 0, text |-> <<>>, status |-> "Ok", out |-> <<>>]

\* The source argument of add_atom_translation.
ParseSourceAdd(source) ==
    CASE source = "base" -> "Base"
      [] source = "ai" -> "AI"
      [] OTHER -> "Manual"

\* The source argument of update_atom_translation.
ParseSourceUpdate(source) ==
    CASE source \in {"base", "Base"} -> "Base"
      [] source \in {"ai", "AI"} -> "AI"
      [] OTHER -> "Manual"

LockFailed(call) ==
    /\ state_poisoned
    /\ last' = [call EXCEPT !.status = "LockFailed"]
    /\ UNCHANGED <<conn, sqlite_sequence, memory_index, matcher, workers, clock,
                   state_poisoned>>

add_atom_translation(original, translated, source) ==
    LET call == [NoCall EXCEPT !.op = "add_atom_translation", !.original = original,
                               !.translated = translated, !.source = source]
    IN  \/ LockFailed(call)
        \/ /\ ~state_poisoned
           /\ upsert_atom(original, translated, ParseSourceAdd(source))
           /\ last' = call
           /\ UNCHANGED <<workers, clock, state_poisoned>>

\* delete_atom_translation with the affected == 0 test of update_atom.
delete_atom_translation_Strict(original) ==
    LET call == [NoCall EXCEPT !.op = "delete_atom_translation", !.original = original]
    IN  \/ LockFailed(call)
        \/ /\ ~state_poisoned
           /\ delete_atom(original)
           /\ last' = [call EXCEPT !.status =
                          IF to_lowercase(original) \in DOMAIN conn
                          THEN "Ok" ELSE "NotFound"]
           /\ UNCHANGED <<workers, clock, state_poisoned>>

delete_atom_translation(original) ==
    LET call == [NoCall EXCEPT !.op = "delete_atom_translation", !.original = original]
    IN  \/ LockFailed(call)
        \/ /\ ~state_poisoned
           /\ delete_atom(original)
           /\ last' = call
           /\ UNCHANGED <<workers, clock, state_poisoned>>

update_atom_translation(id, translated, source) ==
    LET call == [NoCall EXCEPT !.op = "update_atom_translation", !.id = id,
                               !.translated = translated, !.source = source]
    IN  \/ LockFailed(call)
        \/ /\ ~state_poisoned
           /\ update_atom(id, translated, ParseSourceUpdate(source))
           /\ last' = [call EXCEPT !.status =
                          IF RowsWithId(conn, id) = {} THEN "NotFound" ELSE "Ok"]
           /\ UNCHANGED <<workers, clock, state_poisoned>>

get_all_atoms_command ==
    LET call == [NoCall EXCEPT !.op = "get_all_atoms"]
    IN  \/ LockFailed(call)
        \/ /\ ~state_poisoned
           /\ \E order \in IterationOrders(memory_index) :
                  last' = [call EXCEPT !.out = get_all_atoms(memory_index, order)]
           /\ UNCHANGED <<conn, sqlite_sequence, memory_index, matcher, workers,
                          clock, state_poisoned>>

\* replace_text_with_atoms: a panic of replace_with_atoms unwinds through the
\* guard of the managed mutex and poisons it; the threads spawned before the
\* panic run nevertheless.
replace_text_with_atoms(text) ==
    LET call == [NoCall EXCEPT !.op = "replace_text_with_atoms", !.text = text]
        r == replace_with_atoms(matcher, memory_index, text)
    IN  \/ LockFailed(call)
        \/ /\ ~state_poisoned
           /\ workers' = increment_usage_async(workers, r.spawned)
           /\ state_poisoned' = r.panicked
           /\ last' = IF r.panicked THEN [call EXCEPT !.status = "Panic"]
                      ELSE [call EXCEPT !.out = r.result]
           /\ UNCHANGED <<conn, sqlite_sequence, memory_index, matcher, clock>>

\* The body of a thread increment_usage_async spawned.
\* UsageWorker that reloads the Index after its UPDATE.
UsageWorker_Reloading(original) ==
    /\ BagCount(workers, original) > 0
    /\ owner["conn"] = 0
    /\ UNCHANGED owner
    /\ conn' = SqlIncrementUsage(conn, original)
    /\ memory_index' = load_all_to_memory(conn')
    /\ workers' = BagRemove(workers, original)
    /\ UNCHANGED <<sqlite_sequence, matcher, clock, steps,
                   state_poisoned, last, thread>>

UsageWorker(original) ==
    /\ BagCount(workers, original) > 0
    /\ owner["conn"] = 0
    /\ UNCHANGED owner
    /\ conn' = SqlIncrementUsage(conn, original)
    /\ workers' = BagRemove(workers, original)
    /\ UNCHANGED <<sqlite_sequence, memory_index, matcher, clock, steps,
                   state_poisoned, last, thread>>

\* A second passes.
Tick ==
    /\ clock' = clock + 1
    /\ UNCHANGED <<conn, sqlite_sequence, memory_index, matcher, workers,
                   state_poisoned, last>>

----------------------------------------------------------------------------
(* The three mutexes of AtomicDB and the threads that call its methods.    *)

ThreadIds == 1..MaxCalls

Mutexes == {"conn", "memory_index", "matcher"}

\* No thread holds a mutex.
FreeLocks == [m \in Mutexes |-> 0]

\* A thread that has not called anything yet.
NoThreadCall ==
    [op |-> "none", original |-> <<>>, translated |-> <<>>, source |-> "Manual",
     id |-> 0, text |-> <<>>, atoms |-> <<>>, fail_at |-> 0,
     build_fails |-> FALSE]

Idle == [call |-> NoThreadCall, pc |-> "idle", status |-> "", out |-> <<>>,
         seen |-> None]

NoThreads == [t \in ThreadIds |-> Idle]

----------------------------------------------------------------------------
(* The engine under the commands of the application.                       *)

\* The originals, translations and source arguments the commands are given.
Originals ==
    {<<"a">>, <<"A">>, <<"A", "b", "s">>, KelvinSign \o <<"e", "s">>}

Translations == {<<"x">>, <<"y">>}

SourceArgs == {"base", "AI"}

\* The texts handed to replace_text_with_atoms.
EngineTexts == Originals \cup {KelvinSign \o <<"a">>}

\* The database files the application starts on: a fresh one, and one that
\* earlier runs filled.
FreshTable == <<>>

SeededTable ==
    SqlUpsert(SqlUpsert(FreshTable, 0, <<"a">>, <<"x">>, "base", 0),
              1, <<"a", "b", "s">>, <<"y">>, "manual", 0)

InitialTables == {FreshTable, SeededTable}

\* AtomicDB::new: the table is loaded into the Index and the Automaton built.
Init ==
    /\ conn \in InitialTables
    /\ sqlite_sequence = Cardinality(DOMAIN conn)
    /\ memory_index = load_all_to_memory(conn)
    /\ matcher = rebuild_matcher(load_all_to_memory(conn))
    /\ workers = EmptyBag
    /\ clock = 0
    /\ steps = 0
    /\ state_poisoned = FALSE
    /\ last = NoCall
    /\ thread = NoThreads
    /\ owner = FreeLocks

\* One more command or tick of the run.  A command holds the managed mutex
\* from its first line to its last: it runs to completion, and leaves the
\* mutexes of AtomicDB free.
Step ==
    /\ steps < MaxSteps
    /\ steps' = steps + 1
    /\ UNCHANGED <<thread, owner>>

AddAtom ==
    \E original \in Originals, translated \in Translations, source \in SourceArgs :
        Step /\ add_atom_translation(original, translated, source)

DeleteAtom ==
    \E original \in Originals : Step /\ delete_atom_translation(original)

UpdateAtom ==
    \E id \in 1..(sqlite_sequence + 1), translated \in Translations,
       source \in SourceArgs :
        Step /\ update_atom_translation(id, translated, source)

GetAllAtoms == Step /\ get_all_atoms_command

ReplaceText ==
    \E text \in EngineTexts : Step /\ replace_text_with_atoms(text)

RunWorker ==
    \E original \in DOMAIN workers : UsageWorker(original)

ClockTick == Step /\ Tick

Next ==
    \/ AddAtom
    \/ DeleteAtom
    \/ UpdateAtom
    \/ GetAllAtoms
    \/ ReplaceText
    \/ RunWorker
    \/ ClockTick

Spec == Init /\ [][Next]_vars

----------------------------------------------------------------------------
(* replace_with_atoms alone: one call on a text, for every dictionary over *)
(* a pool of keys and every text up to MaxTextLen characters.              *)

\* The keys of the pool, each with the translation it is given.
SubKeys == {<<"a">>, <<"a", "b">>, <<"s", "a">>, <<"a", "b", "s">>}

TranslationOf(key) ==
    CASE key = <<"a">> -> <<"x">>
      [] key = <<"a", "b">> -> <<"y">>
      [] key = <<"s", "a">> -> <<"a">>
      [] key = <<"c", "a", "t">> -> <<"T">>
      [] key = <<"b", "e", "r", "r", "y">> -> <<"f">>
      [] key = <<"a", "b", "i">> -> <<"i">>
      [] key = <<"a", "b", "i", "e">> -> <<"e">>
      [] key = <<"a", "b", "y">> -> <<"y">>
      [] key = <<"e">> -> <<"E">>
      [] key = <<>> -> <<"0">>
      [] OTHER -> <<>>

\* The table after upsert_atom of every key of keys on a fresh database.
RECURSIVE TableOf(_)
TableOf(keys) ==
    IF keys = {} THEN FreshTable
    ELSE LET k == CHOOSE x \in keys : \A y \in keys : Len(y) <= Len(x)
             rest == TableOf(keys \ {k})
         IN  SqlUpsert(rest, Cardinality(keys) - 1, k, TranslationOf(k), "base", 0)

\* The characters of a text.
TextChars == {<<"a">>, <<"b">>, <<"s">>, <<"A">>, KelvinSign}

\* The texts of n characters.
RECURSIVE TextsOfLen(_)
TextsOfLen(n) ==
    IF n = 0 THEN {<<>>}
    ELSE {c \o t : c \in TextChars, t \in TextsOfLen(n - 1)}

Texts == UNION {TextsOfLen(n) : n \in 0..MaxTextLen}

SubInit ==
    /\ conn \in {TableOf(keys) : keys \in SUBSET SubKeys}
    /\ sqlite_sequence = Cardinality(DOMAIN conn)
    /\ memory_index = load_all_to_memory(conn)
    /\ matcher = rebuild_matcher(load_all_to_memory(conn))
    /\ workers = EmptyBag
    /\ clock = 0
    /\ steps = 0
    /\ state_poisoned = FALSE
    /\ last = NoCall
    /\ thread = NoThreads
    /\ owner = FreeLocks

SubReplace ==
    /\ last.op = "none"
    /\ \E text \in Texts :
        /\ replace_text_with_atoms(text)
        /\ UNCHANGED <<steps, thread, owner>>

SubNext == SubReplace

SubSpec == SubInit /\ [][SubNext]_vars

----------------------------------------------------------------------------
(* AtomicDB under threads that share it: every method takes &self and      *)
(* guards conn, memory_index and matcher with a Mutex of their own.  One   *)
(* action per lock() and per stretch of code between two lock() calls.     *)

\* self.<m>.lock().unwrap() by thread t: blocks while another thread holds it.
Lock(t, m) == owner[m] = 0 /\ owner' = [owner EXCEPT ![m] = t]

\* The guards of the mutexes ms go out of scope.
Unlock(ms) == owner' = [m \in Mutexes |-> IF m \in ms THEN 0 ELSE owner[m]]

\* Thread t moves to pc.
Goto(t, pc) == thread' = [thread EXCEPT ![t].pc = pc]

\* Thread t returns status and out.
Return(t, status, out) ==
    thread' = [thread EXCEPT ![t].pc = "done", ![t].status = status, ![t].out = out]

\* BatchExecute that binds the originals as they were given.
RECURSIVE BatchExecute_AsGiven(_, _, _, _)
BatchExecute_AsGiven(table, seq, atoms, now) ==
    IF atoms = <<>> THEN [table |-> table, seq |-> seq]
    ELSE LET a == atoms[1]
         IN  BatchExecute_AsGiven(
                 SqlUpsert(table, seq, a.original, a.translated, as_str(a.source), now),
                 SqlUpsertSeq(table, seq, a.original), Tail(atoms), now)

\* BatchExecute that takes the entries from the last to the first.
RECURSIVE BatchExecute_Reversed(_, _, _, _)
BatchExecute_Reversed(table, seq, atoms, now) ==
    IF atoms = <<>> THEN [table |-> table, seq |-> seq]
    ELSE LET a == atoms[Len(atoms)]
             original_lower == to_lowercase(a.original)
         IN  BatchExecute_Reversed(
                 SqlUpsert(table, seq, original_lower, a.translated,
                           as_str(a.source), now),
                 SqlUpsertSeq(table, seq, original_lower),
                 SubSeq(atoms, 1, Len(atoms) - 1), now)

\* The loop of batch_upsert: one upsert per entry, all with the same now.
RECURSIVE BatchExecute(_, _, _, _)
BatchExecute(table, seq, atoms, now) ==
    IF atoms = <<>> THEN [table |-> table, seq |-> seq]
    ELSE LET a == atoms[1]
             original_lower == to_lowercase(a.original)
         IN  BatchExecute(
                 SqlUpsert(table, seq, original_lower, a.translated,
                           as_str(a.source), now),
                 SqlUpsertSeq(table, seq, original_lower), Tail(atoms), now)

\* batch_upsert_write on the bare connection: what ran before the failure stays.
batch_upsert_write_NoTransaction(table, seq, atoms, fail_at, now) ==
    IF fail_at > 0
    THEN BatchExecute(table, seq, SubSeq(atoms, 1, fail_at - 1), now)
             @@ [status |-> "Err"]
    ELSE BatchExecute(table, seq, atoms, now) @@ [status |-> "Ok"]

\* batch_upsert from unchecked_transaction to commit.  fail_at is the execute
\* the Store fails (0: none): the ? returns, tx is dropped and rolls back.
batch_upsert_write(table, seq, atoms, fail_at, now) ==
    IF fail_at > 0
    THEN [table |-> table, seq |-> seq, status |-> "Err"]
    ELSE BatchExecute(table, seq, atoms, now) @@ [status |-> "Ok"]

\* The statement a mutating method runs under the conn guard, and what it
\* leaves: the table, the AUTOINCREMENT counter and the method's verdict.
StoreWrite(call, table, seq, now) ==
    CASE call.op = "upsert_atom" ->
            LET original_lower == to_lowercase(call.original)
            IN  [table |-> SqlUpsert(table, seq, original_lower, call.translated,
                                     as_str(call.source), now),
                 seq |-> SqlUpsertSeq(table, seq, original_lower),
                 status |-> "Ok"]
      [] call.op = "delete_atom" ->
            [table |-> SqlDelete(table, to_lowercase(call.original)),
             seq |-> seq, status |-> "Ok"]
      [] call.op = "update_atom" ->
            [table |-> SqlUpdateById(table, call.id, call.translated,
                                     as_str(call.source), now),
             seq |-> seq,
             status |-> IF RowsWithId(table, call.id) = {} THEN "NotFound" ELSE "Ok"]
      [] call.op = "batch_upsert" ->
            batch_upsert_write(table, seq, call.atoms, call.fail_at, now)

MutatingOps == {"upsert_atom", "delete_atom", "update_atom", "batch_upsert"}

\* A thread calls a method: its first lock() is what it runs into.
Call(t, call) ==
    /\ thread[t].pc = "idle"
    /\ thread' = [thread EXCEPT
                     ![t].call = call,
                     ![t].status = "Running",
                     ![t].pc = CASE call.op \in MutatingOps -> "write_lock"
                                 [] call.op = "replace_with_atoms" -> "scan_lock_matcher"
                                 [] call.op = "get_all_atoms" -> "list_lock"]
    /\ UNCHANGED <<conn, sqlite_sequence, memory_index, matcher, workers, clock,
                   steps, state_poisoned, last, owner>>

\* let conn = self.conn.lock().unwrap();
WriteLock(t) ==
    /\ thread[t].pc = "write_lock"
    /\ Lock(t, "conn")
    /\ Goto(t, "write")
    /\ UNCHANGED <<conn, sqlite_sequence, memory_index, matcher, workers, clock,
                   steps, state_poisoned, last>>

\* The statement, then drop(conn); an update that affected no row and a batch
\* that failed return here.
Write(t) ==
    /\ thread[t].pc = "write"
    /\ LET w == StoreWrite(thread[t].call, conn, sqlite_sequence, now_timestamp)
       IN  /\ conn' = w.table
           /\ sqlite_sequence' = w.seq
           /\ IF w.status = "Ok" THEN Goto(t, "load_lock_conn")
              ELSE Return(t, w.status, <<>>)
    /\ Unlock({"conn"})
    /\ UNCHANGED <<memory_index, matcher, workers, clock, steps, state_poisoned, last>>

\* load_all_to_memory: let conn = self.conn.lock().unwrap();
LoadLockConn(t) ==
    /\ thread[t].pc = "load_lock_conn"
    /\ Lock(t, "conn")
    /\ Goto(t, "load_lock_memory")
    /\ UNCHANGED <<conn, sqlite_sequence, memory_index, matcher, workers, clock,
                   steps, state_poisoned, last>>

\* load_all_to_memory: let mut memory = self.memory_index.lock().unwrap();
\* the conn guard is still alive.
LoadLockMemory(t) ==
    /\ thread[t].pc = "load_lock_memory"
    /\ Lock(t, "memory_index")
    /\ Goto(t, "load")
    /\ UNCHANGED <<conn, sqlite_sequence, memory_index, matcher, workers, clock,
                   steps, state_poisoned, last>>

\* Load without memory.clear(): the rows are inserted over what the Index held.
Load_NoClear(t) ==
    /\ thread[t].pc = "load"
    /\ memory_index' = load_all_to_memory(conn) @@ memory_index
    /\ Unlock({"conn", "memory_index"})
    /\ Goto(t, "rebuild_lock_memory")
    /\ UNCHANGED <<conn, sqlite_sequence, matcher, workers, clock, steps,
                   state_poisoned, last>>

\* load_all_to_memory: clear, refill, return; both guards are dropped.
Load(t) ==
    /\ thread[t].pc = "load"
    /\ memory_index' = load_all_to_memory(conn)
    /\ Unlock({"conn", "memory_index"})
    /\ Goto(t, "rebuild_lock_memory")
    /\ UNCHANGED <<conn, sqlite_sequence, matcher, workers, clock, steps,
                   state_poisoned, last>>

\* rebuild_matcher: let memory = self.memory_index.lock().unwrap();
RebuildLockMemory(t) ==
    /\ thread[t].pc = "rebuild_lock_memory"
    /\ Lock(t, "memory_index")
    /\ Goto(t, "rebuild_lock_matcher")
    /\ UNCHANGED <<conn, sqlite_sequence, memory_index, matcher, workers, clock,
                   steps, state_poisoned, last>>

\* AhoCorasickBuilder::build returns Err in the call of thread t.  An empty
\* Index has no automaton built.
BuildFails(t) == thread[t].call.build_fails /\ DOMAIN memory_index # {}

\* RebuildLockMatcher that clears the Automaton when the build fails.
RebuildLockMatcher_ClearsOnErr(t) ==
    /\ thread[t].pc = "rebuild_lock_matcher"
    /\ IF BuildFails(t)
       THEN /\ Return(t, "Err", <<>>)
            /\ Unlock({"memory_index"})
            /\ matcher' = None
       ELSE /\ Lock(t, "matcher")
            /\ Goto(t, "rebuild_store")
            /\ matcher' = matcher
    /\ UNCHANGED <<conn, sqlite_sequence, memory_index, workers, clock,
                   steps, state_poisoned, last>>

\* RebuildLockMatcher that goes on without the guard.
RebuildLockMatcher_NoLock(t) ==
    /\ thread[t].pc = "rebuild_lock_matcher"
    /\ Goto(t, "rebuild_store")
    /\ UNCHANGED <<conn, sqlite_sequence, memory_index, matcher, workers, clock,
                   steps, state_poisoned, last, owner>>

\* rebuild_matcher: the automaton is built from the Index (lines 340-363); an
\* Err of the build is returned through `?`, dropping the memory guard; else
\* self.matcher.lock().unwrap(), with the memory guard alive.
RebuildLockMatcher(t) ==
    /\ thread[t].pc = "rebuild_lock_matcher"
    /\ IF BuildFails(t)
       THEN /\ Return(t, "Err", <<>>)
            /\ Unlock({"memory_index"})
       ELSE /\ Lock(t, "matcher")
            /\ Goto(t, "rebuild_store")
    /\ UNCHANGED <<conn, sqlite_sequence, memory_index, matcher, workers, clock,
                   steps, state_poisoned, last>>

\* rebuild_matcher: *guard = None or Some(ac); both guards are dropped and the
\* method returns Ok.
RebuildStore(t) ==
    /\ thread[t].pc = "rebuild_store"
    /\ matcher' = rebuild_matcher(memory_index)
    /\ Unlock({"matcher", "memory_index"})
    /\ Return(t, "Ok", <<>>)
    /\ UNCHANGED <<conn, sqlite_sequence, memory_index, workers, clock, steps,
                   state_poisoned, last>>

\* replace_with_atoms: let matcher_guard = self.matcher.lock().unwrap(); with
\* None in it the text is returned at once.
ScanLockMatcher(t) ==
    /\ thread[t].pc = "scan_lock_matcher"
    /\ owner["matcher"] = 0
    /\ IF matcher = None
       THEN /\ Return(t, "Ok", thread[t].call.text)
            /\ UNCHANGED owner
       ELSE /\ Lock(t, "matcher")
            /\ thread' = [thread EXCEPT ![t].pc = "scan_lock_memory",
                                        ![t].seen = matcher]
    /\ UNCHANGED <<conn, sqlite_sequence, memory_index, matcher, workers, clock,
                   steps, state_poisoned, last>>

\* replace_with_atoms: let memory = self.memory_index.lock().unwrap(); the
\* matcher guard is still alive.
ScanLockMemory(t) ==
    /\ thread[t].pc = "scan_lock_memory"
    /\ Lock(t, "memory_index")
    /\ Goto(t, "scan")
    /\ UNCHANGED <<conn, sqlite_sequence, memory_index, matcher, workers, clock,
                   steps, state_poisoned, last>>

\* ScanStep that first waits for the Store lock to be free.
ScanStep_StoreFree(t, r) ==
    /\ thread[t].pc = "scan"
    /\ owner["conn"] = 0
    /\ workers' = increment_usage_async(workers, r.spawned)
    /\ Return(t, IF r.panicked THEN "Panic" ELSE "Ok", r.result)
    /\ Unlock({"matcher", "memory_index"})
    /\ UNCHANGED <<conn, sqlite_sequence, memory_index, matcher, clock, steps,
                   state_poisoned, last>>

\* The end of replace_with_atoms with the loop's outcome r: the threads are
\* spawned, both guards are dropped, the result is returned.
ScanStep(t, r) ==
    /\ thread[t].pc = "scan"
    /\ workers' = increment_usage_async(workers, r.spawned)
    /\ Return(t, IF r.panicked THEN "Panic" ELSE "Ok", r.result)
    /\ Unlock({"matcher", "memory_index"})
    /\ UNCHANGED <<conn, sqlite_sequence, memory_index, matcher, clock, steps,
                   state_poisoned, last>>

\* replace_with_atoms from find_iter to the return.
Scan(t) ==
    LET r == replace_with_atoms(matcher, memory_index, thread[t].call.text)
    IN  ScanStep(t, r)

\* get_all_atoms: let memory = self.memory_index.lock().unwrap();
ListLock(t) ==
    /\ thread[t].pc = "list_lock"
    /\ Lock(t, "memory_index")
    /\ Goto(t, "list")
    /\ UNCHANGED <<conn, sqlite_sequence, memory_index, matcher, workers, clock,
                   steps, state_poisoned, last>>

\* get_all_atoms: collect, sort, return.
List(t) ==
    /\ thread[t].pc = "list"
    /\ \E order \in IterationOrders(memory_index) :
           Return(t, "Ok", get_all_atoms(memory_index, order))
    /\ Unlock({"memory_index"})
    /\ UNCHANGED <<conn, sqlite_sequence, memory_index, matcher, workers, clock,
                   steps, state_poisoned, last>>

\* The owner of conn while a usage-count thread holds it.
WorkerHolds == -1

\* The thread of increment_usage_async: conn.lock().unwrap().  Which of the
\* spawned threads got the lock shows only when it executes.
WorkerLock ==
    /\ BagSize(workers) > 0
    /\ owner["conn"] = 0
    /\ owner' = [owner EXCEPT !["conn"] = WorkerHolds]
    /\ UNCHANGED <<conn, sqlite_sequence, memory_index, matcher, workers, clock,
                   steps, state_poisoned, last, thread>>

\* The thread of increment_usage_async: the UPDATE, its result ignored; the
\* guard is dropped with the thread's end.
WorkerExecute ==
    /\ owner["conn"] = WorkerHolds
    /\ \E original \in DOMAIN workers :
           /\ BagCount(workers, original) > 0
           /\ conn' = SqlIncrementUsage(conn, original)
           /\ workers' = BagRemove(workers, original)
    /\ Unlock({"conn"})
    /\ UNCHANGED <<sqlite_sequence, memory_index, matcher, clock, steps,
                   state_poisoned, last, thread>>

\* The calls the threads make.  The texts are ASCII.
ThreadCalls ==
    {[NoThreadCall EXCEPT !.op = "upsert_atom", !.original = <<"A", "b">>,
                          !.translated = <<"y">>, !.source = "AI"],
     [NoThreadCall EXCEPT !.op = "upsert_atom", !.original = <<"A", "b">>,
                          !.translated = <<"y">>, !.source = "AI",
                          !.build_fails = TRUE],
     [NoThreadCall EXCEPT !.op = "delete_atom", !.original = <<"A", "b", "s">>],
     [NoThreadCall EXCEPT !.op = "replace_with_atoms",
                          !.text = <<"A", "b", "s", "a">>],
     [NoThreadCall EXCEPT !.op = "get_all_atoms"]}
    \cup {[NoThreadCall EXCEPT !.op = "update_atom", !.id = id,
                               !.translated = <<"y">>, !.source = "Manual"] :
            id \in {1, 3}}
    \cup {[NoThreadCall EXCEPT !.op = "batch_upsert", !.fail_at = n,
                               !.atoms = <<[original |-> <<"A">>, translated |-> <<"y">>,
                                            source |-> "Base"],
                                           [original |-> <<"a">>, translated |-> <<"x">>,
                                            source |-> "AI"]>>] :
            n \in 0..2}

ThreadInit == Init

CallMethod == \E t \in ThreadIds : \E call \in ThreadCalls : Call(t, call)
DoWriteLock == \E t \in ThreadIds : WriteLock(t)
DoWrite == \E t \in ThreadIds : Write(t)
DoLoadLockConn == \E t \in ThreadIds : LoadLockConn(t)
DoLoadLockMemory == \E t \in ThreadIds : LoadLockMemory(t)
DoLoad == \E t \in ThreadIds : Load(t)
DoRebuildLockMemory == \E t \in ThreadIds : RebuildLockMemory(t)
DoRebuildLockMatcher == \E t \in ThreadIds : RebuildLockMatcher(t)
DoRebuildStore == \E t \in ThreadIds : RebuildStore(t)
DoScanLockMatcher == \E t \in ThreadIds : ScanLockMatcher(t)
DoScanLockMemory == \E t \in ThreadIds : ScanLockMemory(t)
DoScan == \E t \in ThreadIds : Scan(t)
DoListLock == \E t \in ThreadIds : ListLock(t)
DoList == \E t \in ThreadIds : List(t)

ThreadNext ==
    \/ CallMethod
    \/ DoWriteLock
    \/ DoWrite
    \/ DoLoadLockConn
    \/ DoLoadLockMemory
    \/ DoLoad
    \/ DoRebuildLockMemory
    \/ DoRebuildLockMatcher
    \/ DoRebuildStore
    \/ DoScanLockMatcher
    \/ DoScanLockMemory
    \/ DoScan
    \/ DoListLock
    \/ DoList
    \/ WorkerLock
    \/ WorkerExecute

ThreadSpec == ThreadInit /\ [][ThreadNext]_vars

----------------------------------------------------------------------------
(* The application with its usage-count threads scheduled fairly: replaces *)
(* and deletes on a dictionary whose keys have plural forms.               *)

UsageKeys == {<<"a">>, <<"a", "b">>}

UsageTexts == {<<"A">>, <<"a", "b", "s">>, <<"a", "b", "a", "b">>}

UsageInit ==
    /\ conn = TableOf(UsageKeys)
    /\ sqlite_sequence = Cardinality(UsageKeys)
    /\ memory_index = load_all_to_memory(conn)
    /\ matcher = rebuild_matcher(memory_index)
    /\ workers = EmptyBag
    /\ clock = 0
    /\ steps = 0
    /\ state_poisoned = FALSE
    /\ last = NoCall
    /\ thread = NoThreads
    /\ owner = FreeLocks

UsageReplace == \E text \in UsageTexts : Step /\ replace_text_with_atoms(text)

UsageDelete == \E original \in UsageKeys : Step /\ delete_atom_translation(original)

UsageNext ==
    \/ UsageReplace
    \/ UsageDelete
    \/ RunWorker

\* A spawned thread that can take the Store lock is not left waiting for ever.
UsageSpec == UsageInit /\ [][UsageNext]_vars /\ WF_vars(RunWorker)

----------------------------------------------------------------------------
(* replace_with_atoms on words: one call on a text of a few words, for     *)
(* every dictionary over keys with plurals in "ies", a one-byte key and    *)
(* the empty key, which upsert_atom accepts as it accepts any string.      *)

WordKeys ==
    {<<>>, <<"e">>, <<"c", "a", "t">>, <<"b", "e", "r", "r", "y">>,
     <<"a", "b", "i">>, <<"a", "b", "i", "e">>, <<"a", "b", "y">>}

WordTexts ==
    {<<"b", "e", "r", "r", "i", "e", "s">>,
     <<"a", "b", "i", "e", "s">>,
     <<"c", "o", "n", "c", "a", "t", "e", "n", "a", "t", "e">>,
     <<"c", "A", "t", "s">>,
     <<"e", "s">>}

WordInit ==
    /\ conn \in {TableOf(keys) : keys \in SUBSET WordKeys}
    /\ sqlite_sequence = Cardinality(DOMAIN conn)
    /\ memory_index = load_all_to_memory(conn)
    /\ matcher = rebuild_matcher(load_all_to_memory(conn))
    /\ workers = EmptyBag
    /\ clock = 0
    /\ steps = 0
    /\ state_poisoned = FALSE
    /\ last = NoCall
    /\ thread = NoThreads
    /\ owner = FreeLocks

WordReplace ==
    /\ last.op = "none"
    /\ \E text \in WordTexts :
        /\ replace_text_with_atoms(text)
        /\ UNCHANGED <<steps, thread, owner>>

WordNext == WordReplace

WordSpec == WordInit /\ [][WordNext]_vars

----------------------------------------------------------------------------
(* Claims.                                                                 *)

\* The last byte, and the last two bytes, of a non-empty key.
LastByteIs(key, b) == Len(key) >= 1 /\ key[Len(key)] = b
LastTwoAre(key, b1, b2) ==
    Len(key) >= 2 /\ key[Len(key) - 1] = b1 /\ key[Len(key)] = b2

\* C1 as stated: in every state between two calls the Index holds the key set
\* of the Store and, for every key, the id, translated, source, usage_count,
\* created_at and updated_at of the Store row.
C1_IndexEqualsStore ==
    /\ DOMAIN memory_index = DOMAIN conn
    /\ \A k \in DOMAIN conn :
        /\ memory_index[k].id = conn[k].id
        /\ memory_index[k].translated = conn[k].translated_text
        /\ as_str(memory_index[k].source) = conn[k].source_type
        /\ memory_index[k].usage_count = conn[k].usage_count
        /\ memory_index[k].created_at = conn[k].created_at
        /\ memory_index[k].updated_at = conn[k].updated_at

\* C1, amended: in every state between two calls the Index holds the key set
\* of the Store and, for every key, the id, translated, source, created_at and
\* updated_at of the Store row; its usage_count is the one of the last reload,
\* never above the Store's.
C1_IndexMirrorsStore ==
    /\ DOMAIN memory_index = DOMAIN conn
    /\ \A k \in DOMAIN conn :
        /\ memory_index[k].id = conn[k].id
        /\ memory_index[k].original = k
        /\ memory_index[k].translated = conn[k].translated_text
        /\ as_str(memory_index[k].source) = conn[k].source_type
        /\ memory_index[k].usage_count <= conn[k].usage_count
        /\ memory_index[k].created_at = conn[k].created_at
        /\ memory_index[k].updated_at = conn[k].updated_at

\* A mutation has completed on a Store in which a usage-count thread had bumped
\* a row: the reload has brought the count into the Index.
C1_Witness ==
    /\ last.op \in {"add_atom_translation", "update_atom_translation",
                    "delete_atom_translation"}
    /\ last.status = "Ok"
    /\ \E k \in DOMAIN conn : memory_index[k].usage_count > 0

\* C2: the Automaton is None exactly when the Index is empty, and otherwise
\* its patterns are the keys of the Index, k+"s" for every key not ending in
\* "s", and k+"es" for every key not ending in "es".
C2_AutomatonOfIndex ==
    /\ (matcher = None) <=> (DOMAIN memory_index = {})
    /\ matcher # None =>
        Unwrap(matcher).patterns =
            DOMAIN memory_index
                \cup {k \o <<"s">> : k \in {x \in DOMAIN memory_index : ~LastByteIs(x, "s")}}
                \cup {k \o <<"e", "s">> :
                        k \in {x \in DOMAIN memory_index : ~LastTwoAre(x, "e", "s")}}

\* A mutation has completed and the Index holds a key that ends in "es", one
\* that ends in "s" only, and one that ends in neither.
C2_Witness ==
    /\ last.op = "add_atom_translation"
    /\ last.status = "Ok"
    /\ \E k \in DOMAIN memory_index : LastTwoAre(k, "e", "s")
    /\ \E k \in DOMAIN memory_index : LastByteIs(k, "s") /\ ~LastTwoAre(k, "e", "s")
    /\ \E k \in DOMAIN memory_index : ~LastByteIs(k, "s")

\* C3: a replace_text_with_atoms(o) issued after add_atom_translation(o, t, s)
\* has returned Ok returns o followed by "(t)".
C3_SubstituteAfterUpsert ==
    [][(/\ last.op = "add_atom_translation"
        /\ last.status = "Ok"
        /\ last'.op = "replace_text_with_atoms"
        /\ last'.text = last.original)
       => (/\ last'.status = "Ok"
           /\ last'.out = FormatReplacement(last.original, last.translated))]_vars

\* C4: replace_text_with_atoms never fails: whatever the dictionary and the
\* text, the call returns a string.
C4_SubstituteNeverFails ==
    last.op = "replace_text_with_atoms" => last.status = "Ok"

----------------------------------------------------------------------------
(* Claims about one replace_text_with_atoms call.                          *)

IsAscii(s) == \A i \in 1..Len(s) : s[i] \notin {"E2", "84", "AA"}

Contains(h, needle) ==
    \E i \in 0..(Len(h) - Len(needle)) : Slice(h, i, i + Len(needle)) = needle

\* span followed by "(" translated ")".
Annotation(span, translated) == span \o <<"(">> \o translated \o <<")">>

\* The call that has just returned is a replace_text_with_atoms; the text it
\* was given, lower-cased; the patterns, the matches the scan reported, and the
\* run of the loop over them.
Replaced == last.op = "replace_text_with_atoms"
LastLower == to_lowercase(last.text)
Patterns == IF matcher = None THEN {} ELSE Unwrap(matcher).patterns
Reported ==
    LET ms == find_iter(Patterns, LastLower) IN {ms[i] : i \in DOMAIN ms}
Run == replace_with_atoms(matcher, memory_index, last.text)
Accepted == {Run.processed_ranges[j] : j \in DOMAIN Run.processed_ranges}

\* Key k occurs in the text at offset i, in any casing.
KeyAt(k, i) == k \in DOMAIN memory_index /\ MatchesAt(k, LastLower, i)
Offsets == 0..Len(last.text)

\* The occurrence of key k at offset i was annotated with k's atom, alone or
\* with a plural ending.
AnnotatedWith(k, i) ==
    \E j \in DOMAIN Run.processed_ranges :
        /\ Run.processed_ranges[j][1] = i
        /\ Run.processed_ranges[j][2] >= i + Len(k)
        /\ Run.spawned[j] = k

\* C5 as stated, on ASCII text and keys of two bytes or more: for every atom
\* (k, T) and every occurrence of k in the text in any casing, the output
\* contains that occurrence in its original casing followed by "(T)", or the
\* occurrence was annotated with its atom together with a plural ending.
C5_EveryOccurrenceAnnotated ==
    (Replaced /\ IsAscii(last.text) /\ \A k \in DOMAIN memory_index : Len(k) >= 2) =>
        /\ last.status = "Ok"
        /\ \A k \in DOMAIN memory_index : \A i \in Offsets :
            KeyAt(k, i) =>
                \/ Contains(last.out, Annotation(Slice(last.text, i, i + Len(k)),
                                                 memory_index[k].translated))
                \/ AnnotatedWith(k, i)

\* C5, amended: on ASCII text, for every atom (k, T) and every occurrence of k
\* in any casing that the scan reports as a match, the output contains that
\* occurrence in its original casing followed by "(T)".
C5_ReportedOccurrenceAnnotated ==
    (Replaced /\ IsAscii(last.text)) =>
        /\ last.status = "Ok"
        /\ \A m \in Reported :
            LET k == Slice(to_lowercase(last.text), m.start, m.end)
            IN  k \in DOMAIN memory_index =>
                    Contains(last.out, Annotation(Slice(last.text, m.start, m.end),
                                                  memory_index[k].translated))

\* A text with the key "a" in both casings came back with both annotated.
C5_Witness ==
    /\ Replaced
    /\ last.text = <<"A", "a">>
    /\ last.out = <<"A", "(", "x", ")", "a", "(", "x", ")">>

\* C6 as stated, on ASCII text: for every atom (k, T) with k+"s" not a key and
\* every occurrence of k+"s" in the text, the output contains that occurrence
\* followed by "(T)".
C6_PluralAnnotated ==
    (Replaced /\ IsAscii(last.text)) =>
        \A k \in DOMAIN memory_index : \A i \in Offsets :
            (k \o <<"s">> \notin DOMAIN memory_index
                /\ MatchesAt(k \o <<"s">>, LastLower, i)) =>
                /\ last.status = "Ok"
                /\ Contains(last.out, Annotation(Slice(last.text, i, i + Len(k) + 1),
                                                 memory_index[k].translated))

\* C6, amended: on ASCII text, for every atom (k, T) with k of two bytes or
\* more and k+"s" not a key, and every occurrence of k+"s" that the scan
\* reports as a match, the output contains that occurrence followed by "(T)".
C6_ReportedPluralAnnotated ==
    (Replaced /\ IsAscii(last.text)) =>
        LET lower == LastLower
        IN  \A m \in Reported : \A k \in DOMAIN memory_index :
                (/\ Len(k) >= 2
                 /\ k \o <<"s">> \notin DOMAIN memory_index
                 /\ Slice(lower, m.start, m.end) = k \o <<"s">>) =>
                    /\ last.status = "Ok"
                    /\ Contains(last.out, Annotation(Slice(last.text, m.start, m.end),
                                                     memory_index[k].translated))

\* With "ab" a key and "abs" none, the text "Abs" came back as "Abs(y)".
C6_Witness ==
    /\ Replaced
    /\ <<"a", "b">> \in DOMAIN memory_index
    /\ <<"a", "b", "s">> \notin DOMAIN memory_index
    /\ last.text = <<"A", "b", "s">>
    /\ last.out = <<"A", "b", "s", "(", "y", ")">>

\* Every key occurrence of the text, as <<key, offset>>, and whether no two of
\* them share a byte.
Occurrences == {o \in (DOMAIN memory_index) \X Offsets : KeyAt(o[1], o[2])}
PairwiseDisjoint ==
    \A o1, o2 \in Occurrences :
        o1 # o2 => (o1[2] + Len(o1[1]) <= o2[2] \/ o2[2] + Len(o2[1]) <= o1[2])

\* The text with "(T)" put after every match of ms, taken in ascending order
\* from the i-th on, that resolves to an atom; pos is the offset copied up to.
RECURSIVE AnnotateFrom(_, _, _, _)
AnnotateFrom(text, ms, i, pos) ==
    IF i > Len(ms) THEN Slice(text, pos, Len(text))
    ELSE LET m == ms[i]
             atom_opt == LookupAtom(to_lowercase(Slice(text, m.start, m.end)),
                                    memory_index)
         IN  Slice(text, pos, m.end)
                 \o (IF atom_opt = None THEN <<>>
                     ELSE <<"(">> \o Unwrap(atom_opt).translated \o <<")">>)
                 \o AnnotateFrom(text, ms, i + 1, m.end)

\* C7 as stated, on ASCII text and keys of two bytes or more: when the key
\* occurrences of the text are pairwise disjoint, every one of them is
\* annotated with its own atom's translation.
C7_EveryDisjointOccurrenceAnnotated ==
    (/\ Replaced
     /\ IsAscii(last.text)
     /\ \A k \in DOMAIN memory_index : Len(k) >= 2
     /\ PairwiseDisjoint) =>
        /\ last.status = "Ok"
        /\ \A o \in Occurrences : AnnotatedWith(o[1], o[2])

\* C7, amended: on ASCII text the output is the text with "(T)" put right
\* after every match the scan reports that resolves to an atom (k, T), and
\* nothing else changed: rewriting from the rightmost match to the leftmost
\* never shifts or corrupts the range of a match further left.
C7_ReportedMatchesAnnotatedInPlace ==
    (Replaced /\ IsAscii(last.text)) =>
        /\ last.status = "Ok"
        /\ last.out = AnnotateFrom(last.text, find_iter(Patterns, LastLower), 1, 0)

\* Two different keys were annotated in one call, the left one after the
\* right one.
C7_Witness ==
    /\ Replaced
    /\ last.text = <<"a", "b", "A">>
    /\ last.out = <<"a", "b", "(", "y", ")", "A", "(", "x", ")">>

\* Keys k1 at offset s1 and k2 at offset s2 overlap in the lower-cased text,
\* k1 further left.
OverlapAt(lower, k1, s1, k2, s2) ==
    /\ s1 < s2
    /\ s2 < s1 + Len(k1)
    /\ MatchesAt(k1, lower, s1)
    /\ MatchesAt(k2, lower, s2)

\* k2 is a proper suffix of k1.
ProperSuffix(k2, k1) == Len(k2) < Len(k1) /\ ends_with(k1, k2)

\* C8 as stated, on ASCII text: when two keys overlap in the text, the one
\* with the larger start offset is annotated and no annotation starts at the
\* one further left.
C8_RightmostWins ==
    (Replaced /\ IsAscii(last.text)) =>
        LET lower == LastLower
            accepted == Accepted
        IN  \A k1, k2 \in DOMAIN memory_index : \A s1, s2 \in Offsets :
                OverlapAt(lower, k1, s1, k2, s2) =>
                    /\ <<s2, s2 + Len(k2)>> \in accepted
                    /\ \A r \in accepted : r[1] # s1

\* C8, amended: on ASCII text, when two keys overlap in the text they are
\* never both annotated; if the scan reports a match at the start of the left
\* one, nothing is annotated at the start of the right one; an annotation
\* starts at the right one only if the start of the left one lies inside a
\* match reported from further left. With keys k1 and k2, k2 a proper suffix
\* of k1, and a text that is k1 in some casing, the output is the whole text
\* followed by "(T1)".
C8_LeftmostWins ==
    (Replaced /\ IsAscii(last.text)) =>
        LET lower == LastLower
            reported == Reported
            accepted == Accepted
        IN  /\ last.status = "Ok"
            /\ \A k1, k2 \in DOMAIN memory_index : \A s1, s2 \in Offsets :
                OverlapAt(lower, k1, s1, k2, s2) =>
                    /\ ~(\E r1, r2 \in accepted : r1[1] = s1 /\ r2[1] = s2)
                    /\ (\E m \in reported : m.start = s1) =>
                            \A r \in accepted : r[1] # s2
                    /\ (\E r \in accepted : r[1] = s2) =>
                            \E m \in reported : m.start < s1 /\ s1 < m.end
            /\ \A k1, k2 \in DOMAIN memory_index :
                (ProperSuffix(k2, k1) /\ lower = k1) =>
                    last.out = Annotation(last.text, memory_index[k1].translated)

\* With "sa" and its suffix "a" both keys, the text "sA" came back annotated
\* as a whole with the translation of "sa".
C8_Witness ==
    /\ Replaced
    /\ {<<"s", "a">>, <<"a">>} \subseteq DOMAIN memory_index
    /\ last.text = <<"s", "A">>
    /\ last.out = <<"s", "A", "(", "a", ")">>

\* k1 is a proper prefix of k2.
ProperPrefix(k1, k2) == Len(k1) < Len(k2) /\ SubSeq(k2, 1, Len(k1)) = k1

\* C9: every annotated span is the longest pattern that occurs at its start
\* offset; a pattern occurrence that starts further left and overlaps an
\* annotated span starts inside a match reported from still further left;
\* with keys k1 and k2, k1 a proper prefix of k2, an ASCII text that is k2 in
\* some casing gets the one annotation that covers it whole.
C9_LeftmostLongest ==
    Replaced =>
        LET lower == LastLower
            patterns == Patterns
            reported == Reported
        IN  /\ \A r \in Accepted :
                /\ \E p \in patterns :
                    MatchesAt(p, lower, r[1]) /\ Len(p) = r[2] - r[1]
                /\ \A p \in patterns :
                    MatchesAt(p, lower, r[1]) => Len(p) <= r[2] - r[1]
                /\ \A p \in patterns : \A i \in Offsets :
                    (i < r[1] /\ r[1] < i + Len(p) /\ MatchesAt(p, lower, i)) =>
                        \E m \in reported : m.start < i /\ i < m.end
            /\ \A k1, k2 \in DOMAIN memory_index :
                (ProperPrefix(k1, k2) /\ IsAscii(last.text) /\ lower = k2) =>
                    /\ last.status = "Ok"
                    /\ last.out = Annotation(last.text, memory_index[k2].translated)

\* With "a" and "ab" both keys, the text "Ab" came back with the one
\* annotation of "ab".
C9_Witness ==
    /\ Replaced
    /\ {<<"a">>, <<"a", "b">>} \subseteq DOMAIN memory_index
    /\ last.text = <<"A", "b">>
    /\ last.out = <<"A", "b", "(", "y", ")">>

----------------------------------------------------------------------------
(* Claims about delete_atom_translation.                                   *)

\* The call that has just returned is a delete_atom_translation that went
\* through, and the key it deleted.
Deleted == last.op = "delete_atom_translation" /\ last.status = "Ok"
DeletedKey == to_lowercase(last.original)

\* The next call is a get_all_atoms, and it lists no atom under the deleted
\* key.
ListedWithoutDeleted ==
    (last'.op = "get_all_atoms" /\ last'.status = "Ok") =>
        \A i \in DOMAIN last'.out : last'.out[i].original # DeletedKey

----------------------------------------------------------------------------
(* Claims about the mutating commands.                                     *)

\* The step is a call of the command op (no tick of the clock) that went
\* through to the engine.
Called(op) ==
    /\ steps' = steps + 1
    /\ clock' = clock
    /\ last'.op = op
    /\ last'.status # "LockFailed"

\* C11: add_atom_translation(o, t, s) leaves exactly the rows it found plus
\* the one of lower(o), which holds t, s and updated_at = now; a row that was
\* there keeps its id, usage_count and created_at; every other row is
\* untouched; the Index holds the new row; and a get_all_atoms that follows
\* lists exactly one atom with original lower(o), with t and s.
C11_IdempotentUpsert ==
    [][/\ Called("add_atom_translation") =>
            LET k == to_lowercase(last'.original)
            IN  /\ last'.status = "Ok"
                /\ DOMAIN conn' = DOMAIN conn \cup {k}
                /\ conn'[k].original_text = k
                /\ conn'[k].translated_text = last'.translated
                /\ conn'[k].source_type = as_str(ParseSourceAdd(last'.source))
                /\ conn'[k].updated_at = clock
                /\ k \in DOMAIN conn =>
                    /\ conn'[k].id = conn[k].id
                    /\ conn'[k].usage_count = conn[k].usage_count
                    /\ conn'[k].created_at = conn[k].created_at
                /\ \A x \in DOMAIN conn \ {k} : conn'[x] = conn[x]
                /\ memory_index'[k] = RowToAtom(conn'[k])
       /\ (/\ last.op = "add_atom_translation"
           /\ last.status = "Ok"
           /\ Called("get_all_atoms")) =>
            LET k == to_lowercase(last.original)
                at == {i \in DOMAIN last'.out : last'.out[i].original = k}
            IN  /\ Cardinality(at) = 1
                /\ \A i \in at :
                    /\ last'.out[i].translated = last.translated
                    /\ last'.out[i].source = ParseSourceAdd(last.source)]_vars

\* An atom that had been used was upserted again, a second or more after it
\* was created.
C11_Witness ==
    /\ last.op = "add_atom_translation"
    /\ last.status = "Ok"
    /\ LET k == to_lowercase(last.original)
       IN  /\ k \in DOMAIN conn
           /\ conn[k].usage_count > 0
           /\ conn[k].created_at < conn[k].updated_at
           /\ conn[k].translated_text = last.translated

\* C14: update_atom_translation with an id no row has reports NotFound and
\* leaves the Store, the Index and the Automaton as they were; with an id a
\* row has it succeeds; no other command reports NotFound.
C14_UpdateMissingIdIsNotFound ==
    [][/\ Called("update_atom_translation") =>
            IF RowsWithId(conn, last'.id) = {}
            THEN /\ last'.status = "NotFound"
                 /\ UNCHANGED <<conn, sqlite_sequence, memory_index, matcher>>
            ELSE last'.status = "Ok"
       /\ (steps' = steps + 1 /\ last'.status = "NotFound") =>
            last'.op = "update_atom_translation"]_vars

\* An update with an unknown id was refused while the Index still lagged
\* behind the usage counts of the Store.
C14_Witness ==
    /\ last.op = "update_atom_translation"
    /\ last.status = "NotFound"
    /\ \E k \in DOMAIN conn : memory_index[k].usage_count < conn[k].usage_count

\* C15: delete_atom_translation(o) with lower(o) no key of the Store succeeds
\* and leaves the rows of the Store, the keys of the Index and the Automaton
\* as they were.
C15_DeleteAbsentIsNoOp ==
    [][(Called("delete_atom_translation")
            /\ to_lowercase(last'.original) \notin DOMAIN conn) =>
        /\ last'.status = "Ok"
        /\ conn' = conn
        /\ sqlite_sequence' = sqlite_sequence
        /\ DOMAIN memory_index' = DOMAIN memory_index
        /\ matcher' = matcher]_vars

\* The first call on the seeded dictionary was the delete of a key it does
\* not hold.
C15_Witness ==
    /\ last.op = "delete_atom_translation"
    /\ last.status = "Ok"
    /\ steps = 1
    /\ to_lowercase(last.original) \notin {<<"a">>, <<"a", "b", "s">>}
    /\ DOMAIN conn = {<<"a">>, <<"a", "b", "s">>}

\* C16: whenever the Index is empty the Automaton is None, and a
\* replace_text_with_atoms called then returns its text unchanged and spawns
\* no usage-count thread.
C16_EmptyIndexNoOp ==
    [][/\ DOMAIN memory_index = {} => matcher = None
       /\ DOMAIN memory_index' = {} => matcher' = None
       /\ (steps' = steps + 1 /\ clock' = clock
              /\ last'.op = "replace_text_with_atoms"
              /\ DOMAIN memory_index = {}) =>
            /\ last'.status = "Ok"
            /\ last'.out = last'.text
            /\ workers' = workers]_vars

\* The last atom was deleted and a text the dictionary used to match came
\* back unchanged.
C16_Witness ==
    /\ last.op = "replace_text_with_atoms"
    /\ last.status = "Ok"
    /\ last.out = last.text
    /\ last.text # <<>>
    /\ DOMAIN memory_index = {}
    /\ sqlite_sequence >= 1

----------------------------------------------------------------------------
(* Claims about AtomicDB under threads that share it.                      *)

\* The thread t takes the step that leaves the program point pc.
Leaves(t, pc) == thread[t].pc = pc /\ thread'[t].pc # pc

\* C12: whatever upsert_atom, batch_upsert, update_atom and delete_atom calls
\* have run, every key of the Store and of the Index is in lower-cased form
\* and is the original of its row, no two rows have the same lower-cased
\* original or the same id, and a write of an original touches no key but
\* its lower-cased form.
C12_OneAtomPerLowercasedOriginal ==
    [][/\ \A k \in DOMAIN conn' :
            /\ to_lowercase(k) = k
            /\ conn'[k].original_text = k
            /\ \A k2 \in DOMAIN conn' :
                   (to_lowercase(k2) = to_lowercase(k)
                       \/ conn'[k2].id = conn'[k].id) => k2 = k
       /\ \A k \in DOMAIN memory_index' :
            /\ to_lowercase(k) = k
            /\ memory_index'[k].original = k
       /\ \A t \in ThreadIds :
            LET call == thread[t].call
                written == IF call.op = "batch_upsert"
                           THEN {to_lowercase(call.atoms[i].original) :
                                    i \in DOMAIN call.atoms}
                           ELSE {to_lowercase(call.original)}
            IN  (Leaves(t, "write") /\ call.op # "update_atom") =>
                    \A k \in DOMAIN conn \cup DOMAIN conn' :
                        (k \notin written) =>
                            /\ k \in DOMAIN conn
                            /\ k \in DOMAIN conn'
                            /\ conn'[k] = conn[k]]_vars

\* A batch that names one original in two letter cases has returned, and the
\* one row of that original holds the entry given last.
C12_Witness ==
    \E t \in ThreadIds :
        /\ thread[t].pc = "done"
        /\ thread[t].call.op = "batch_upsert"
        /\ thread[t].status = "Ok"
        /\ <<"a">> \in DOMAIN conn
        /\ conn[<<"a">>].source_type = "ai"
        /\ <<"a">> \in DOMAIN memory_index
        /\ memory_index[<<"a">>].source = "AI"

\* C13: a batch_upsert whose Store write fails at one of its entries returns
\* an error, leaves the Store, the Index and the Automaton as they were, and
\* leaves the Store lock free.
C13_BatchAtomicity ==
    [][\A t \in ThreadIds :
          (Leaves(t, "write") /\ thread[t].call.op = "batch_upsert"
              /\ thread[t].call.fail_at > 0) =>
            /\ thread'[t].pc = "done"
            /\ thread'[t].status = "Err"
            /\ conn' = conn
            /\ sqlite_sequence' = sqlite_sequence
            /\ memory_index' = memory_index
            /\ matcher' = matcher
            /\ owner'["conn"] = 0
            /\ \A m \in Mutexes : owner'[m] # t]_vars

\* A batch failed at its second entry, after the first was executed, and
\* another thread holds the Store lock for its own write.
C13_Witness ==
    \E t, u \in ThreadIds :
        /\ thread[t].pc = "done"
        /\ thread[t].call.op = "batch_upsert"
        /\ thread[t].call.fail_at = 2
        /\ thread[t].status = "Err"
        /\ thread[u].pc = "write"
        /\ owner["conn"] = u

\* The mutex a thread stands in front of, by its program point.
LockPoints ==
    [write_lock |-> "conn", load_lock_conn |-> "conn",
     load_lock_memory |-> "memory_index", rebuild_lock_memory |-> "memory_index",
     rebuild_lock_matcher |-> "matcher", scan_lock_matcher |-> "matcher",
     scan_lock_memory |-> "memory_index", list_lock |-> "memory_index"]

\* The thread t is blocked in lock() on a mutex that u holds.
WaitsFor(t, u) ==
    /\ t # u
    /\ thread[t].pc \in DOMAIN LockPoints
    /\ owner[LockPoints[thread[t].pc]] = u

\* The mutexes a thread holds.
Held(t) == {m \in Mutexes : owner[m] = t}

\* C17: in no reachable state is there a set of threads each of which waits
\* for a lock that another thread of the set holds.
C17_NoWaitCycle ==
    \A S \in (SUBSET ThreadIds) \ {{}} :
        \E t \in S : \A u \in S : ~WaitsFor(t, u)

\* C18: a thread in a mutating call never holds two of the three locks.
C18_NeverNested ==
    \A t \in ThreadIds :
        thread[t].call.op \in MutatingOps => Cardinality(Held(t)) <= 1

\* C19: a replace_with_atoms that has both guards scans with an Automaton
\* that is the one built from the Index it looks up in.
C19_ScanPairConsistent ==
    \A t \in ThreadIds :
        thread[t].pc = "scan" => matcher = rebuild_matcher(memory_index)

\* C20: from the moment a replace_with_atoms has taken the matcher guard to
\* its return the Automaton is the one it found and does not change, and
\* every value the Automaton is given is the whole automaton built from the
\* Index of that moment.
C20_AutomatonReplacedAtomically ==
    [][/\ \A t \in ThreadIds :
            thread[t].pc \in {"scan_lock_memory", "scan"} =>
                /\ matcher = thread[t].seen
                /\ matcher' = matcher
       /\ matcher' # matcher => matcher' = rebuild_matcher(memory_index)]_vars

\* A replace_with_atoms scans with the automaton it found while a mutation
\* that has reloaded the Index waits to rebuild another one.
C20_Witness ==
    \E t, u \in ThreadIds :
        /\ thread[t].pc = "scan"
        /\ thread[t].seen = matcher
        /\ thread[u].pc = "rebuild_lock_memory"
        /\ rebuild_matcher(memory_index) # matcher

\* C21: a thread in replace_with_atoms never holds the Store lock, each of
\* its steps can be taken whoever holds the Store lock, and its last step
\* returns with the Store as it is, the increments it dispatched still to
\* be applied.
C21_SubstituteNeverTakesStoreLock ==
    \A t \in ThreadIds :
        thread[t].call.op = "replace_with_atoms" =>
            /\ "conn" \notin Held(t)
            /\ (thread[t].pc = "scan_lock_matcher" /\ owner["matcher"] = 0) =>
                   ENABLED ScanLockMatcher(t)
            /\ (thread[t].pc = "scan_lock_memory" /\ owner["memory_index"] = 0) =>
                   ENABLED ScanLockMemory(t)
            /\ thread[t].pc = "scan" =>
                   \A r \in {replace_with_atoms(matcher, memory_index,
                                                 thread[t].call.text)} :
                       ENABLED (/\ ScanStep(t, r)
                                /\ thread'[t].pc = "done"
                                /\ conn' = conn
                                /\ owner'["conn"] = owner["conn"]
                                /\ BagSize(workers') =
                                       BagSize(workers) + Len(r.spawned))

\* A replace_with_atoms that will annotate is at its scan while a
\* usage-count thread of an earlier call holds the Store lock.
C21_Witness ==
    \E t \in ThreadIds :
        /\ thread[t].pc = "scan"
        /\ owner["conn"] = WorkerHolds
        /\ replace_with_atoms(matcher, memory_index, thread[t].call.text).spawned
               # <<>>

----------------------------------------------------------------------------
(* Claims about the usage counts and the listing.                          *)

\* The step is the UPDATE of one usage-count thread.
WorkerRan == steps' = steps /\ workers' # workers

\* The atoms of a listing, as a set.
Listed(out) == {out[i] : i \in DOMAIN out}

\* C22: replace_text_with_atoms leaves the Store, the Index and the
\* Automaton as they are; the usage-count threads it spawned change nothing
\* but usage_count columns of the Store; and get_all_atoms lists the atoms of
\* the Index, so that the listing after a replace, whether or not its
\* increments have been applied, is the one before it.
C22_SubstituteLeavesListing ==
    [][/\ Called("replace_text_with_atoms") =>
            UNCHANGED <<conn, sqlite_sequence, memory_index, matcher>>
       /\ WorkerRan =>
            /\ UNCHANGED <<sqlite_sequence, memory_index, matcher>>
            /\ DOMAIN conn' = DOMAIN conn
            /\ \A k \in DOMAIN conn :
                   [conn'[k] EXCEPT !.usage_count = 0] =
                       [conn[k] EXCEPT !.usage_count = 0]
       /\ Called("get_all_atoms") =>
            /\ Listed(last'.out) = {memory_index[k] : k \in DOMAIN memory_index}
            /\ Len(last'.out) = Cardinality(DOMAIN memory_index)
            /\ memory_index' = memory_index]_vars

\* A replace annotated an atom, its increment reached the Store, and the
\* listing that followed still shows the count of before.
C22_Witness ==
    /\ last.op = "get_all_atoms"
    /\ last.status = "Ok"
    /\ steps = 2
    /\ workers = EmptyBag
    /\ \E i \in DOMAIN last.out :
           /\ last.out[i].usage_count = 0
           /\ conn[last.out[i].original].usage_count = 1

\* The number of places of out at which needle stands.
CountOf(out, needle) ==
    Cardinality({i \in 0..Len(out) : i + Len(needle) <= Len(out)
                                     /\ Slice(out, i, i + Len(needle)) = needle})

\* The most increments one run dispatches for one atom.
MaxUsage == 2 * MaxSteps

\* C23: a replace that returns spawns, for every atom of the Index, as many
\* usage-count threads as it wrote annotations of that atom, each under the
\* atom's own key; each thread adds exactly one to the usage_count of its
\* key, if the Store holds it, and to nothing else; and with the threads
\* scheduled fairly every increment dispatched for an atom reaches its
\* usage_count, unless the atom is deleted.
C23_EveryAnnotationCounted ==
    /\ [][/\ (Called("replace_text_with_atoms") /\ last'.status = "Ok") =>
               /\ DOMAIN workers' \subseteq DOMAIN workers \cup DOMAIN memory_index
               /\ \A k \in DOMAIN memory_index :
                      BagCount(workers', k) =
                          BagCount(workers, k)
                              + CountOf(last'.out,
                                        <<"(">> \o memory_index[k].translated \o <<")">>)
          /\ WorkerRan =>
               \E k \in DOMAIN workers :
                   /\ workers' = BagRemove(workers, k)
                   /\ DOMAIN conn' = DOMAIN conn
                   /\ \A x \in DOMAIN conn :
                          conn'[x] = IF x = k
                                     THEN [conn[x] EXCEPT !.usage_count = @ + 1]
                                     ELSE conn[x]]_vars
    /\ \A k \in UsageKeys : \A c \in 1..MaxUsage :
           (k \in DOMAIN conn /\ conn[k].usage_count + BagCount(workers, k) >= c)
               ~> (k \notin DOMAIN conn \/ conn[k].usage_count >= c)

\* The plural "abs" and the two "ab" of "abab" were annotated, and the three
\* increments have all reached the atom "ab".
C23_Witness ==
    /\ steps = 2
    /\ workers = EmptyBag
    /\ <<"a", "b">> \in DOMAIN conn
    /\ conn[<<"a", "b">>].usage_count = 3
    /\ last.out = <<"a", "b", "(", "y", ")", "a", "b", "(", "y", ")">>

\* C24: no usage_count of the Store is negative; as long as a row keeps its
\* id its usage_count does not go down, whatever the threads call; and the
\* write of upsert_atom, batch_upsert and update_atom leaves the usage_count
\* of every row that was there as it was.
C24_UsageCountMonotone ==
    [][/\ \A k \in DOMAIN conn : conn[k].usage_count >= 0
       /\ \A k \in DOMAIN conn' : conn'[k].usage_count >= 0
       /\ \A k \in DOMAIN conn \cap DOMAIN conn' :
              conn'[k].id = conn[k].id =>
                  conn'[k].usage_count >= conn[k].usage_count
       /\ \A t \in ThreadIds :
              (Leaves(t, "write")
                  /\ thread[t].call.op \in {"upsert_atom", "batch_upsert", "update_atom"}) =>
                  \A k \in DOMAIN conn :
                      /\ k \in DOMAIN conn'
                      /\ conn'[k].id = conn[k].id
                      /\ conn'[k].usage_count = conn[k].usage_count]_vars

\* The atom "a" has been counted once and an update_atom has written its
\* translation and source.
C24_Witness ==
    \E t \in ThreadIds :
        /\ thread[t].call.op = "update_atom"
        /\ thread[t].status = "Ok"
        /\ thread[t].pc = "done"
        /\ <<"a">> \in DOMAIN conn
        /\ conn[<<"a">>].id = thread[t].call.id
        /\ conn[<<"a">>].usage_count = 1
        /\ conn[<<"a">>].source_type = "manual"

\* C25: get_all_atoms lists every atom of the dictionary exactly once, each
\* as the Index holds it, and no entry has a larger usage_count than the
\* entry before it.
C25_ListedOnceByUsage ==
    [][Called("get_all_atoms") =>
        LET out == last'.out
        IN  /\ last'.status = "Ok"
            /\ Len(out) = Cardinality(DOMAIN conn)
            /\ {out[i].original : i \in DOMAIN out} = DOMAIN conn
            /\ \A i \in DOMAIN out : out[i] = memory_index[out[i].original]
            /\ \A i \in 1..(Len(out) - 1) :
                   out[i].usage_count >= out[i + 1].usage_count]_vars

\* The listing holds two atoms with different counts, the larger first.
C25_Witness ==
    /\ last.op = "get_all_atoms"
    /\ last.status = "Ok"
    /\ Len(last.out) = 2
    /\ last.out[1].usage_count > last.out[2].usage_count

\* C26: a mutating call whose automaton build fails returns an error with the
\* Store, the Index and the Automaton as that step found them (the write of
\* the call is not undone, the Automaton is not replaced) and with no lock
\* held; and every rebuild that succeeds leaves the Automaton built from the
\* Index.
C26_BuildFailureKeepsWrite ==
    [][\A t \in ThreadIds :
          /\ (Leaves(t, "rebuild_lock_matcher") /\ thread'[t].pc = "done") =>
                /\ thread'[t].status = "Err"
                /\ UNCHANGED <<conn, sqlite_sequence, memory_index, matcher>>
                /\ \A m \in Mutexes : owner'[m] # t
          /\ Leaves(t, "rebuild_store") =>
                /\ thread'[t].status = "Ok"
                /\ memory_index' = memory_index
                /\ matcher' = rebuild_matcher(memory_index)]_vars

\* The upsert of "ab" has failed in the build, alone on the engine: the Store
\* and the Index hold "ab", the Automaton has no pattern for it.
C26_Witness ==
    \E t \in ThreadIds :
        /\ thread[t].pc = "done"
        /\ thread[t].status = "Err"
        /\ thread[t].call.op = "upsert_atom"
        /\ \A u \in ThreadIds \ {t} : thread[u].pc = "idle"
        /\ <<"a", "b">> \in DOMAIN conn
        /\ <<"a", "b">> \in DOMAIN memory_index
        /\ matcher # rebuild_matcher(memory_index)

----------------------------------------------------------------------------
(* Claims about the lookup of a match.                                     *)

\* The dictionary memory with the same keys and translations and every other
\* field of every atom changed: tags, ids, counts and timestamps differ from
\* those of memory and from atom to atom.
Retagged(memory) ==
    [k \in DOMAIN memory |->
        [memory[k] EXCEPT !.source = IF @ = "Base" /\ Len(k) = 1 THEN "AI"
                                     ELSE IF @ = "Manual" THEN "Base"
                                     ELSE "Manual",
                          !.id = @ + Cardinality(DOMAIN memory),
                          !.usage_count = @ + Len(k),
                          !.created_at = @ + 1,
                          !.updated_at = @ + Len(k) + 1]]

\* C27: replace_with_atoms gives, on a dictionary with the same keys and
\* translations but other source tags, ids, usage counts and timestamps, the
\* result it gave on this one.
C27_OutputIgnoresOtherFields ==
    Replaced =>
        LET other == Retagged(memory_index)
            r == replace_with_atoms(rebuild_matcher(other), other, last.text)
        IN  /\ r.panicked <=> (last.status = "Panic")
            /\ ~r.panicked => r.result = last.out

\* A text was annotated with the translations of two atoms.
C27_Witness ==
    /\ Replaced
    /\ last.status = "Ok"
    /\ Contains(last.out, <<"(", "x", ")">>)
    /\ Contains(last.out, <<"(", "y", ")">>)

\* The atom the lookup rules give for the match w: w itself; else w without
\* its "s", for w longer than min_s; else w without its "es", for w longer
\* than min_es; else w with "y" for its "ies", for w longer than 4.
ResolveBy(w, memory, min_s, min_es) ==
    LET n == Len(w)
        keys == DOMAIN memory
    IN  IF w \in keys THEN Some(memory[w])
        ELSE IF ends_with(w, <<"s">>) /\ n > min_s /\ SubSeq(w, 1, n - 1) \in keys
        THEN Some(memory[SubSeq(w, 1, n - 1)])
        ELSE IF ends_with(w, <<"e", "s">>) /\ n > min_es /\ SubSeq(w, 1, n - 2) \in keys
        THEN Some(memory[SubSeq(w, 1, n - 2)])
        ELSE IF ends_with(w, <<"i", "e", "s">>) /\ n > 4
                /\ SubSeq(w, 1, n - 3) \o <<"y">> \in keys
        THEN Some(memory[SubSeq(w, 1, n - 3) \o <<"y">>])
        ELSE None

\* C28 as stated, the lengths being those of the stripped text: every match
\* of a replace is looked up with "s" stripped when the stem is longer than 2
\* (the match longer than 3), "es" when the stem is longer than 3 (the match
\* longer than 5).
C28_StemLengthGuards ==
    Replaced =>
        \A m \in Reported :
            LET w == Slice(LastLower, m.start, m.end)
            IN  LookupAtom(w, memory_index) = ResolveBy(w, memory_index, 3, 5)

\* C28: every text the Automaton can report resolves to its own atom when it
\* is a key; else to the atom of the text without "s", when the match is
\* longer than 2; else to the atom of the text without "es", when the match
\* is longer than 3; else to the atom of the text with "y" for "ies", when
\* the match is longer than 4; else to none.
C28_MatchLengthGuards ==
    \A w \in Patterns : LookupAtom(w, memory_index) = ResolveBy(w, memory_index, 2, 3)

\* The match "abs" of the text "abs" was resolved to the two-byte key "ab" by
\* the "s" rule, in a dictionary that holds "a" as well.
C28_Witness ==
    /\ Replaced
    /\ {<<"a">>, <<"a", "b">>} \subseteq DOMAIN memory_index
    /\ <<"a", "b", "s">> \notin DOMAIN memory_index
    /\ last.text = <<"a", "b", "s">>
    /\ last.out = <<"a", "b", "s", "(", "y", ")">>

\* The lookup of the match m of the last text finds an atom.
Resolves(m) == LookupAtom(Slice(LastLower, m.start, m.end), memory_index) # None

\* The bytes the annotations of the matches of ms that end at or before
\* offset pos add to the output.
RECURSIVE AddedBefore(_, _)
AddedBefore(ms, pos) ==
    IF ms = <<>> THEN 0
    ELSE (IF ms[1].end <= pos /\ Resolves(ms[1])
          THEN Len(LookupAtom(Slice(LastLower, ms[1].start, ms[1].end),
                              memory_index)[1].translated) + 2
          ELSE 0)
         + AddedBefore(Tail(ms), pos)

\* C29: the loop of replace_with_atoms over the matches of a text ends in the
\* state in which it ends over the resolved matches alone: a match without an
\* atom changes neither the result nor the accepted ranges nor the threads
\* spawned, and does not end the loop.  No accepted range is that of such a
\* match, one thread is spawned per accepted range, and on ASCII text every
\* resolved match is accepted and the span of every other match stands in
\* the output as in the text, with no annotation behind it.
C29_UnresolvedMatchDropped ==
    Replaced =>
        LET ms == find_iter(Patterns, LastLower)
            kept == SelectSeq(ms, Resolves)
            start0 == [result |-> last.text, processed_ranges |-> <<>>,
                       spawned |-> <<>>, panicked |-> FALSE]
            full == ReplaceLoop(start0, sort_by_key(ms), memory_index,
                                last.text, LastLower)
            only == ReplaceLoop(start0, sort_by_key(kept), memory_index,
                                last.text, LastLower)
            ranges == {full.processed_ranges[j] : j \in DOMAIN full.processed_ranges}
        IN  /\ full = only
            /\ full.panicked <=> (last.status = "Panic")
            /\ ~full.panicked => last.out = full.result
            /\ \A i \in DOMAIN ms :
                   ~Resolves(ms[i]) => <<ms[i].start, ms[i].end>> \notin ranges
            /\ Len(full.spawned) = Len(full.processed_ranges)
            /\ BagSize(workers) = Len(full.spawned)
            /\ IsAscii(last.text) =>
                 /\ ranges = {<<kept[i].start, kept[i].end>> : i \in DOMAIN kept}
                 /\ \A i \in DOMAIN ms :
                        ~Resolves(ms[i]) =>
                            LET at == AddedBefore(ms, ms[i].start)
                            IN  /\ Slice(last.out, ms[i].start + at, ms[i].end + at)
                                     = Slice(last.text, ms[i].start, ms[i].end)
                                /\ ms[i].end + at < Len(last.out) =>
                                     last.out[ms[i].end + at + 1] # "("

\* In "asab" the match "as" found no atom and was left alone, and the match
\* "ab" after it was annotated and counted.
C29_Witness ==
    /\ Replaced
    /\ last.text = <<"a", "s", "a", "b">>
    /\ last.out = <<"a", "s", "a", "b", "(", "y", ")">>
    /\ workers = BagAdd(EmptyBag, <<"a", "b">>)

\* C30: a pattern of the automaton for which the lookup finds no atom does
\* not change the result: replace_with_atoms over the automaton without that
\* pattern returns the text the call returned.
C30_UnresolvedVariantHarmless ==
    Replaced =>
        \A p \in Patterns :
            LookupAtom(p, memory_index) = None =>
                LET r == replace_with_atoms(Some([patterns |-> Patterns \ {p}]),
                                            memory_index, last.text)
                IN  /\ r.panicked <=> (last.status = "Panic")
                    /\ ~r.panicked => r.result = last.out

----------------------------------------------------------------------------
(* Claims about update by id, the usage counts and the matches of a scan.  *)

\* C31: update_atom_translation(id, t, s) with the id of a row gives that row
\* t, s and updated_at = now and leaves its original, id, usage_count and
\* created_at, every other row, the keys of the Store and of the Index and
\* the patterns of the Automaton as they were; the Index holds t and s under
\* the key, replace_with_atoms on the key then returns it annotated with t,
\* and so does a replace_text_with_atoms that follows on an ASCII text that
\* lower-cases to the key.
C31_UpdateByIdFrame ==
    [][/\ (Called("update_atom_translation") /\ last'.status = "Ok") =>
            \E k \in DOMAIN conn :
                /\ conn[k].id = last'.id
                /\ conn'[k] = [conn[k] EXCEPT
                                  !.translated_text = last'.translated,
                                  !.source_type = as_str(ParseSourceUpdate(last'.source)),
                                  !.updated_at = clock]
                /\ conn'[k].original_text = conn[k].original_text
                /\ conn'[k].id = conn[k].id
                /\ conn'[k].usage_count = conn[k].usage_count
                /\ conn'[k].created_at = conn[k].created_at
                /\ DOMAIN conn' = DOMAIN conn
                /\ \A x \in DOMAIN conn \ {k} : conn'[x] = conn[x]
                /\ DOMAIN memory_index' = DOMAIN memory_index
                /\ matcher' = matcher
                /\ sqlite_sequence' = sqlite_sequence
                /\ memory_index'[k].translated = last'.translated
                /\ memory_index'[k].source = ParseSourceUpdate(last'.source)
                /\ replace_with_atoms(matcher', memory_index', k).result
                       = Annotation(k, last'.translated)
       /\ (/\ last.op = "update_atom_translation"
           /\ last.status = "Ok"
           /\ Called("replace_text_with_atoms")
           /\ IsAscii(last'.text)
           /\ \E k \in DOMAIN conn :
                  conn[k].id = last.id /\ to_lowercase(last'.text) = k) =>
            /\ last'.status = "Ok"
            /\ last'.out = Annotation(last'.text, last.translated)]_vars

\* One of two atoms, used before, was given another translation by its id a
\* second or more after it was created.
C31_Witness ==
    /\ last.op = "update_atom_translation"
    /\ last.status = "Ok"
    /\ Cardinality(DOMAIN conn) = 2
    /\ \E k \in DOMAIN conn :
           /\ conn[k].id = last.id
           /\ conn[k].usage_count > 0
           /\ conn[k].created_at < conn[k].updated_at
           /\ conn[k].translated_text = last.translated
           /\ memory_index[k].translated = last.translated

\* C32: a usage-count thread whose atom is no longer in the Store leaves the
\* Store as it is; no usage-count thread adds or removes a row, or touches
\* the Index, the Automaton, the state of the managed mutex or the result of
\* the last command; and every command that follows succeeds, a replace with
\* the text the Index and the Automaton give, whatever threads are waiting and
\* whatever became of those that ran.
C32_IncrementBestEffort ==
    [][/\ WorkerRan =>
            /\ \A original \in DOMAIN workers :
                   (workers' = BagRemove(workers, original)
                        /\ original \notin DOMAIN conn) => conn' = conn
            /\ DOMAIN conn' = DOMAIN conn
            /\ UNCHANGED <<sqlite_sequence, memory_index, matcher,
                           state_poisoned, last>>
       /\ steps' = steps + 1 =>
            /\ last'.status = "Ok"
            /\ ~state_poisoned'
            /\ last'.op = "replace_text_with_atoms" =>
                   last'.out = replace_with_atoms(matcher, memory_index,
                                                  last'.text).result]_vars

\* Four increments were dispatched for the atom "ab" by two replaces, the atom
\* was deleted, and one of the four threads has run.
C32_Witness ==
    /\ steps = 3
    /\ last.op = "delete_atom_translation"
    /\ last.original = <<"a", "b">>
    /\ <<"a", "b">> \notin DOMAIN conn
    /\ BagCount(workers, <<"a", "b">>) = 3

\* C33: the matches find_iter reports for a scan come in the order of their
\* starts and each ends at or before the start of the next, so that the
\* overlap test of the loop is false for every pair of them; and when the
\* call returns, the accepted ranges are those of the reported matches the
\* lookup resolves, one each.
C33_ReportedMatchesDisjoint ==
    Replaced =>
        LET ms == find_iter(Patterns, LastLower)
            run == Run
            resolved == {i \in DOMAIN ms : Resolves(ms[i])}
        IN  /\ \A i, j \in DOMAIN ms : i < j => ms[i].end <= ms[j].start
            /\ \A i, j \in DOMAIN ms :
                   i # j => ~Overlaps(<<<<ms[i].start, ms[i].end>>>>,
                                      ms[j].start, ms[j].end)
            /\ ~run.panicked =>
                 /\ Len(run.processed_ranges) = Cardinality(resolved)
                 /\ {run.processed_ranges[j] : j \in DOMAIN run.processed_ranges}
                        = {<<ms[i].start, ms[i].end>> : i \in resolved}

\* In "absa" the keys "abs" and "sa" overlap; "abs" and the "a" behind it
\* were reported, and both were annotated.
C33_Witness ==
    /\ Replaced
    /\ last.text = <<"a", "b", "s", "a">>
    /\ OverlapAt(LastLower, <<"a", "b", "s">>, 0, <<"s", "a">>, 2)
    /\ {<<"a">>, <<"s", "a">>, <<"a", "b", "s">>} \subseteq DOMAIN memory_index
    /\ last.out = <<"a", "b", "s", "(", ")", "a", "(", "x", ")">>

----------------------------------------------------------------------------
(* Claims about replace_with_atoms on words.                               *)

\* The atom the rules give for the match w when the "ies" rule is left out:
\* w itself, else w without its "s", else w without its "es".
ResolveWithoutIes(w, memory) ==
    LET n == Len(w)
        keys == DOMAIN memory
    IN  IF w \in keys THEN Some(memory[w])
        ELSE IF ends_with(w, <<"s">>) /\ n > 2 /\ SubSeq(w, 1, n - 1) \in keys
        THEN Some(memory[SubSeq(w, 1, n - 1)])
        ELSE IF ends_with(w, <<"e", "s">>) /\ n > 3 /\ SubSeq(w, 1, n - 2) \in keys
        THEN Some(memory[SubSeq(w, 1, n - 2)])
        ELSE None

C35_MatchedWhereverItOccurs ==
    (Replaced /\ IsAscii(last.text) /\ \A k \in DOMAIN memory_index : Len(k) >= 2) =>
        \A k \in DOMAIN memory_index : \A i \in Offsets :
            KeyAt(k, i) => AnnotatedWith(k, i)

\* C35, amended: on ASCII text the first byte of every occurrence of a
\* non-empty key, whatever bytes stand around the occurrence, lies in a match
\* the scan reports: one that starts further left, or one that starts with
\* the occurrence and is at least as long; and with the one atom (cat, T)
\* the text "concatenate" is returned as "concat(T)enate".
C35_NoWordBoundary ==
    (Replaced /\ IsAscii(last.text)) =>
        /\ \A k \in DOMAIN memory_index \ {<<>>} : \A i \in Offsets :
               KeyAt(k, i) =>
                   \E m \in Reported :
                       \/ m.start < i /\ i < m.end
                       \/ m.start = i /\ m.end >= i + Len(k)
        /\ (/\ DOMAIN memory_index = {<<"c", "a", "t">>}
            /\ last.text = <<"c", "o", "n", "c", "a", "t", "e", "n", "a", "t", "e">>) =>
               last.out = <<"c", "o", "n", "c", "a", "t", "(", "T", ")",
                            "e", "n", "a", "t", "e">>

\* "concatenate" was annotated in the middle of the word.
C35_Witness ==
    /\ Replaced
    /\ DOMAIN memory_index = {<<"c", "a", "t">>}
    /\ last.out = <<"c", "o", "n", "c", "a", "t", "(", "T", ")",
                    "e", "n", "a", "t", "e">>

\* C36: on ASCII text the call returns, and its output is the text with
\* "(T)" put behind the span of every reported match that resolves to an
\* atom, T being that atom's translation: every byte of the text stands in the
\* output, moved right by the annotations before it, the annotations stand
\* between them, and the output has no other byte, so taking the annotations
\* out gives the text back.  The matches are those of the text: one increment
\* is dispatched per resolved match of the text, none for a key that stands in
\* an annotation.
C36_OnlyAnnotationsInserted ==
    (Replaced /\ IsAscii(last.text)) =>
        LET ms == find_iter(Patterns, LastLower)
            n == Len(last.text)
        IN  /\ last.status = "Ok"
            /\ Len(last.out) = n + AddedBefore(ms, n)
            /\ \A i \in 1..n : last.out[i + AddedBefore(ms, i - 1)] = last.text[i]
            /\ \A j \in DOMAIN ms :
                   Resolves(ms[j]) =>
                       LET at == ms[j].end + AddedBefore(SubSeq(ms, 1, j - 1), n)
                           T == LookupAtom(Slice(LastLower, ms[j].start, ms[j].end),
                                           memory_index)[1].translated
                       IN  Slice(last.out, at, at + Len(T) + 2)
                               = <<"(">> \o T \o <<")">>
            /\ BagSize(workers) = Cardinality({j \in DOMAIN ms : Resolves(ms[j])})

\* "abies" was annotated with the translation "e" of "abie"; "e" is a key of
\* the dictionary too, and the "e" of the annotation was left alone.
C36_Witness ==
    /\ Replaced
    /\ {<<"a", "b", "i", "e">>, <<"e">>} \subseteq DOMAIN memory_index
    /\ <<>> \notin DOMAIN memory_index
    /\ last.text = <<"a", "b", "i", "e", "s">>
    /\ last.out = <<"a", "b", "i", "e", "s", "(", "e", ")">>

----------------------------------------------------------------------------
(* Claims about batch_upsert and about concurrent mutations.               *)

\* The Store after upsert_atom was called on each entry of atoms in turn,
\* the first at the second now, every later one a second after the one before.
RECURSIVE UpsertEach(_, _, _, _)
UpsertEach(table, seq, atoms, now) ==
    IF atoms = <<>> THEN [table |-> table, seq |-> seq]
    ELSE LET call == [NoThreadCall EXCEPT !.op = "upsert_atom",
                                          !.original = atoms[1].original,
                                          !.translated = atoms[1].translated,
                                          !.source = atoms[1].source]
             w == StoreWrite(call, table, seq, now)
         IN  UpsertEach(w.table, w.seq, Tail(atoms), now + 1)

\* The rows of a table without their timestamps.
Untimed(table) ==
    [k \in DOMAIN table |->
        [id |-> table[k].id,
         original_text |-> table[k].original_text,
         translated_text |-> table[k].translated_text,
         source_type |-> table[k].source_type,
         usage_count |-> table[k].usage_count]]

\* C37: the Store write of a batch_upsert that succeeds leaves the rows, but
\* for their timestamps, and the AUTOINCREMENT counter that upsert_atom called
\* on each entry in turn leaves; when the call has returned with no other call
\* made meanwhile, the Index is the Store's and the Automaton the one derived
\* from it; and of two entries with one lower-cased original a single row is
\* left, which holds the translation and the source of the later entry.
C37_BatchAsUpsertEach ==
    [][\A t \in ThreadIds :
          LET call == thread[t].call
          IN  /\ (Leaves(t, "write") /\ call.op = "batch_upsert"
                      /\ call.fail_at = 0) =>
                    LET each == UpsertEach(conn, sqlite_sequence, call.atoms,
                                           now_timestamp)
                    IN  /\ Untimed(conn') = Untimed(each.table)
                        /\ sqlite_sequence' = each.seq
                        /\ \A i, j \in DOMAIN call.atoms :
                               LET k == to_lowercase(call.atoms[j].original)
                               IN  (i < j /\ to_lowercase(call.atoms[i].original) = k) =>
                                       /\ conn'[k].translated_text
                                              = call.atoms[j].translated
                                       /\ conn'[k].source_type
                                              = as_str(call.atoms[j].source)
                                       /\ \A k2 \in DOMAIN conn' :
                                              to_lowercase(k2) = k => k2 = k
              /\ (/\ thread'[t].pc = "done"
                  /\ thread'[t].status = "Ok"
                  /\ call.op = "batch_upsert"
                  /\ \A u \in ThreadIds \ {t} : thread'[u].pc = "idle") =>
                    /\ memory_index' = load_all_to_memory(conn')
                    /\ matcher' = rebuild_matcher(memory_index')
                    /\ \E table \in InitialTables :
                           LET each == UpsertEach(table, Cardinality(DOMAIN table),
                                                  call.atoms, now_timestamp)
                           IN  /\ Untimed(conn') = Untimed(each.table)
                               /\ sqlite_sequence' = each.seq]_vars

\* A batch with the entries (A, y, Base) and (a, x, AI) has returned on the
\* database that held the atom "a" already, no other call made: the one row
\* of "a" has kept its id and holds x and AI.
C37_Witness ==
    \E t \in ThreadIds :
        /\ thread[t].pc = "done"
        /\ thread[t].call.op = "batch_upsert"
        /\ thread[t].status = "Ok"
        /\ \A u \in ThreadIds \ {t} : thread[u].pc = "idle"
        /\ DOMAIN conn = DOMAIN SeededTable
        /\ conn[<<"a">>].id = SeededTable[<<"a">>].id
        /\ conn[<<"a">>].translated_text = <<"x">>
        /\ conn[<<"a">>].source_type = "ai"
        /\ memory_index[<<"a">>].translated = <<"x">>

\* Every call made has returned, and none met a failure of the automaton build.
AllReturned ==
    \A t \in ThreadIds :
        /\ thread[t].pc \in {"idle", "done"}
        /\ ~(thread[t].call.build_fails /\ thread[t].status = "Err")

\* C38: when every call made on the shared AtomicDB has returned, none of them
\* with a failed automaton build, the Index has the keys of the Store, each
\* with the id, translation, source and timestamps of its row, and the
\* Automaton is the one derived from the Index, whatever the order in which
\* the steps of the calls were taken; no lock is held then.
C38_QuiescentIndexAndAutomaton ==
    AllReturned =>
        /\ DOMAIN memory_index = DOMAIN conn
        /\ \A k \in DOMAIN conn :
               [RowToAtom(conn[k]) EXCEPT !.usage_count = 0]
                   = [memory_index[k] EXCEPT !.usage_count = 0]
        /\ matcher = rebuild_matcher(memory_index)
        /\ \A m \in Mutexes : owner[m] \in {0, WorkerHolds}

\* An upsert of "Ab" and a delete of "Abs" have both returned on the database
\* that held "a" and "abs".
C38_Witness ==
    /\ AllReturned
    /\ \E t, u \in ThreadIds :
           /\ thread[t].pc = "done" /\ thread[t].call.op = "upsert_atom"
           /\ thread[u].pc = "done" /\ thread[u].call.op = "delete_atom"
           /\ thread[t].status = "Ok" /\ thread[u].status = "Ok"
    /\ DOMAIN conn = {<<"a">>, <<"a", "b">>}
    /\ DOMAIN memory_index = {<<"a">>, <<"a", "b">>}

----------------------------------------------------------------------------
(* Claims about the empty key.                                             *)

\* C39: every range a replace accepts, and so annotates, has at least one
\* byte, whatever keys upsert_atom has put into the dictionary.
C39_AnnotatesOnlyNonEmptySpans ==
    Replaced =>
        \A j \in DOMAIN Run.processed_ranges :
            Run.processed_ranges[j][1] < Run.processed_ranges[j][2]

====
